---- MODULE Spec2Model ----
(***************************************************************************)
(* Plex-Auto-Languages: the alert pipeline (PlexAlertHandler), the         *)
(* scheduled deep analysis (PlexServer.start_deep_analysis) and the        *)
(* server cache (PlexServerCache), as state machines.                      *)
(*                                                                         *)
(* Specifications:                                                         *)
(*   Spec      listener thread + alert processor thread + stop()           *)
(*   FairSpec  Spec with the processor thread scheduled fairly             *)
(*   ConcSpec  Spec plus the scheduler thread running the deep analysis    *)
(*   RefreshSpec  two threads calling refresh_library_cache on one cache   *)
(*   DedupSpec    a sequence of should_process_recently_added calls        *)
(***************************************************************************)
EXTENDS Integers, Sequences, FiniteSets, TLC

\* ------------------------------------------------------------------ bounds
\* Alerts enqueued in one run of the model.
MaxAlerts == 3
\* Entries of the array field of one push message.
MaxEntries == 2
\* Value at which the model stops counting retries (see HandlerTimeout).
MaxRetry == 2

\* Last value of the clock read by datetime.now().
MaxClock == 1
\* Largest addedAt of an episode.
MaxAddedAt == 2
MaxStreams == 2
MaxParts == 1
MaxPasses == 2
MaxSeconds == 11

\* ------------------------------------------------------------- alert model
MsgTypes == {"playing", "activity", "timeline", "status", "other"}

NoField == "none"

\* The array field that belongs to each message type.
FieldOfType(type) ==
    CASE type = "playing" -> "PlaySessionStateNotification"
      [] type = "activity" -> "ActivityNotification"
      [] type = "timeline" -> "TimelineEntry"
      [] type = "status" -> "StatusNotification"
      [] OTHER -> NoField

\* A push message: its "type", the array field it carries (the one of its
\* type, or none) and the number of entries of that field.
Messages ==
    {m \in [type : MsgTypes, field : {FieldOfType(t) : t \in MsgTypes}, k : 0..MaxEntries] :
        /\ m.field \in {FieldOfType(m.type), NoField}
        /\ m.field = NoField => m.k = 0}

NoMessage == [type |-> "other", field |-> NoField, k |-> 0]

NoAlert == [id |-> 0, variant |-> "None", entry |-> 0]

VARIABLES
    trigger_on_play,      \* PlexAlertHandler._trigger_on_play
    trigger_on_scan,      \* PlexAlertHandler._trigger_on_scan
    trigger_on_activity,  \* PlexAlertHandler._trigger_on_activity
    alerts_queue,         \* PlexAlertHandler._alerts_queue
    stop_event,           \* PlexAlertHandler._stop_event
    pc,                   \* position of the processor thread in _process_alerts
    alert,                \* local variable alert of _process_alerts
    retry_counter,        \* local variable retry_counter of _process_alerts
    lpc,                  \* position of the listener thread in __call__; between
                          \* calls, "ignored" when the last call returned early
    msg,                  \* the message of the __call__ in progress
    idx,                  \* index of the next entry of message[alert_field]
    nput,                 \* history: number of alerts put on the queue so far
    firstInvoked,         \* history: alert ids in order of first handler call
    outcome,              \* history: how the last call of alert.process ended
    afterStop,            \* history: handler calls begun while the flag was set
    spc,                  \* position of the scheduler thread in the deep analysis
    library,              \* the server's library: episode key -> part keys
    is_refreshing,        \* PlexServerCache._is_refreshing
    episode_parts,        \* PlexServerCache.episode_parts
    newly_added,          \* PlexServerCache.newly_added
    newly_updated,        \* PlexServerCache.newly_updated
    last_refresh,         \* PlexServerCache._last_refresh
    cache_file,           \* content of the cache file
    now,                  \* the clock read by datetime.now()
    cpc,                  \* per thread: position inside a PlexServerCache method
    loc,                  \* per thread: local variables of that method
    ret,                  \* per thread: what its last refresh_library_cache returned
    granted,              \* history: per (episode, added_at), how many calls of
                          \* should_process_recently_added returned True (up to 2)
    ugranted,             \* history: per episode, how many calls of
                          \* should_process_recently_updated returned True since
                          \* the last refresh stamp (up to 2)
    propagated,           \* history: per episode, how many times
                          \* process_new_or_updated_episode(.., new=True) was
                          \* called (up to 2)
    default_streams,      \* len(PlexServerCache.default_streams)
    tpc,                  \* position of a TrackChanges run
    audio_stream,         \* TrackChanges._audio_stream
    subtitle_stream,      \* TrackChanges._subtitle_stream
    targets,              \* the parts of the target episodes, in order: their
                          \* streams and the selected ones (0: none selected)
    changes,              \* TrackChanges._changes
    applied,              \* number of changes the apply in progress has made
    passes,               \* history: number of completed apply calls (up to
                          \* MaxPasses)
    update,               \* history: the last get_episodes_to_update call: the
                          \* show's episodes, the reference, update_level,
                          \* update_strategy and the list returned
    evicted,              \* history: the last PlexPlaying.process that stored a
                          \* stream pair also evicted entries
    ppc,                  \* position in process_new_or_updated_episode
    resolves,             \* per user id, what the lookups of this call give
    user_index,           \* position of the loop in get_all_user_ids()
    served,               \* history: users change_track_for_user completed for
    notified,             \* history: number of notify_changes calls
    user_clients,         \* PlexServerCache.user_clients holds the client
    session_states,       \* PlexServerCache.session_states: per session key
    selection,            \* per item, the (audio, subtitle) pair selected for
                          \* the user on the server
    default_pair,         \* PlexServerCache.default_streams: per item key
    recent_activities,    \* PlexServerCache.recent_activities: per item key of
                          \* the user, the stamp
    written_by,           \* history: per item, who changed its selected pair
                          \* since its default_streams entry was written:
                          \* "none", "system" (applied plans only) or "user"
    selected_at,          \* history: per item key, when an Activity alert last
                          \* called change_tracks (-1: never)
    prev,                 \* history: per session key, the state of the last
                          \* Playing alert handled and whether it got as far
                          \* as the session-state test, less than 24 hours ago
    last                  \* history: the last handler call: how it ended
                          \* ("tracks": it called change_tracks or
                          \* process_new_or_updated_episode); for a Playing
                          \* alert whether it reported the state of the
                          \* session's previous alert (same), that one having
                          \* reached the session-state test less than 24
                          \* hours before with another state than "stopped"
                          \* (repeated); for an Activity alert the age of the
                          \* key's entry and the time since selected_at (-1:
                          \* none)

configVars == <<trigger_on_play, trigger_on_scan, trigger_on_activity>>
listenerVars == <<lpc, msg, idx, nput>>
processorVars == <<pc, alert, retry_counter, firstInvoked, outcome, afterStop>>
pipeVars == <<configVars, alerts_queue, stop_event, listenerVars, processorVars>>
cacheVars == <<library, is_refreshing, episode_parts, newly_added, newly_updated, last_refresh,
               cache_file, now, cpc, loc, ret, granted, ugranted, propagated,
               default_streams>>
trackVars == <<tpc, audio_stream, subtitle_stream, targets, changes, applied, passes, update>>
propVars == <<ppc, resolves, user_index, served, notified>>
playVars == <<user_clients, session_states, selection, default_pair, recent_activities,
              written_by, selected_at, prev, last>>
nonTrackVars == <<evicted, propVars, playVars>>
handlerVars == <<trackVars, nonTrackVars>>
vars == <<pipeVars, spc, cacheVars, handlerVars>>

\* ---------------------------------------------------------- __call__ mapping
\* The if/elif chain of __call__ with every trigger flag read as true.
BranchIgnoringTriggers(type) ==
    IF type \in {"playing", "activity", "timeline", "status"} THEN type ELSE "none"

\* The if/elif chain of __call__: the branch taken for a message type under
\* the trigger flags, "none" when no branch matches.
Branch(type) ==
    IF trigger_on_play /\ type = "playing" THEN "playing"
    ELSE IF trigger_on_activity /\ type = "activity" THEN "activity"
    ELSE IF trigger_on_scan /\ type = "timeline" THEN "timeline"
    ELSE IF trigger_on_scan /\ type = "status" THEN "status"
    ELSE "none"

\* alert_class assigned by the branch.
AlertClass(b) ==
    CASE b = "playing" -> "Playing"
      [] b = "activity" -> "Activity"
      [] b = "timeline" -> "Timeline"
      [] b = "status" -> "Status"
      [] OTHER -> "None"

\* alert_field assigned by the branch.
AlertField(b) ==
    CASE b = "playing" -> "PlaySessionStateNotification"
      [] b = "activity" -> "ActivityNotification"
      [] b = "timeline" -> "TimelineEntry"
      [] b = "status" -> "StatusNotification"
      [] OTHER -> NoField

\* Negation of the early return of __call__.
Accepted(m) ==
    /\ AlertClass(Branch(m.type)) # "None"
    /\ AlertField(Branch(m.type)) # NoField
    /\ m.field = AlertField(Branch(m.type))

\* ------------------------------------------------------------ cache model
Threads == {"processor", "scheduler"}

Episodes == {"E1", "E2"}

\* The order in which self._plex.episodes() lists the episodes.
EpisodeOrder == <<"E1", "E2">>

\* The part keys of one episode, as the set the code compares.
PartSets == {{"p1"}, {"p2"}}

\* A dict: a function on the set of its keys.
EmptyDict == [k \in {} |-> {}]

Libraries == UNION {[D -> PartSets] : D \in SUBSET Episodes}

\* The values of an episode's addedAt.
Times == 1..MaxAddedAt

\* d[k] = v
DictSet(d, k, v) == [x \in DOMAIN d \cup {k} |-> IF x = k THEN v ELSE d[x]]

\* The list self._plex.episodes() returns for a library.
EpisodeList(lib) == SelectSeq(EpisodeOrder, LAMBDA e : e \in DOMAIN lib)

NoLocals == [eps |-> EmptyDict, pos |-> 0, new_episode_parts |-> EmptyDict,
             added |-> <<>>, updated |-> <<>>, episode_id |-> "", added_at |-> 0]

NoReturn == [kind |-> "none", added |-> <<>>, updated |-> <<>>]

\* The dict save() encodes and writes.
CacheDocument(nu, na, ep, lr) ==
    [newly_updated |-> nu, newly_added |-> na, episode_parts |-> ep, last_refresh |-> lr]

\* DateTimeEncoder.default: a datetime is written as its ISO 8601 string.
IsoFormat(t) == <<"iso", t>>

\* dateutil isoparse of such a string.
IsoParse(x) == x[2]

\* No cache file at the path; a file json.load rejects.
NoFile == [missing |-> TRUE]
CorruptFile == [corrupt |-> TRUE]

\* ------------------------------------------------------------------- Init
\* PlexAlertHandler.__init__ : empty queue, flag clear, processor thread
\* started.
PipeStart ==
    /\ alerts_queue = <<>>
    /\ stop_event = FALSE
    /\ pc = "loop"
    /\ alert = NoAlert
    /\ retry_counter = 0
    /\ lpc = "idle"
    /\ msg = NoMessage
    /\ idx = 1
    /\ nput = 0
    /\ firstInvoked = <<>>
    /\ outcome = "none"
    /\ afterStop = 0

\* PlexServerCache.__init__ on a server whose library is lib, ending with the
\* snapshot snap: without a usable cache file the maps are empty and the first
\* refresh_library_cache() makes snap = lib; with one, snap is the non-empty
\* snapshot _load() read from it.
\* No handler has run: no TrackChanges object exists yet.
HandlerStart ==
    /\ tpc = "idle"
    /\ update = [show |-> <<>>, reference |-> <<0, 0>>, level |-> "none", strategy |-> "none",
                 episodes |-> <<>>]
    /\ audio_stream = [none |-> TRUE]
    /\ subtitle_stream = [none |-> TRUE]
    /\ targets = <<>>
    /\ changes = <<>>
    /\ applied = 0
    /\ passes = 0
    /\ evicted = FALSE
    /\ ppc = "idle"
    /\ resolves = <<>>
    /\ user_index = 0
    /\ served = {}
    /\ notified = 0
    /\ user_clients = FALSE
    /\ session_states = [k \in {"s1"} |-> "none"]
    /\ selection = [i \in {"E1", "E2"} |-> "p"]
    /\ default_pair = [i \in {"E1", "E2"} |-> "none"]
    /\ recent_activities = [i \in {"E1", "E2"} |-> -1]
    /\ prev = [k \in {"s1"} |-> [state |-> "none", reached |-> FALSE]]
    /\ written_by = [i \in {"E1", "E2"} |-> "none"]
    /\ selected_at = [i \in {"E1", "E2"} |-> -1]
    /\ last = [variant |-> "None", item |-> "none", outcome |-> "none", same |-> FALSE,
               repeated |-> FALSE, cause |-> "none", age |-> -1, since |-> -1]

CacheStart(lib, snap) ==
    /\ library = lib
    /\ is_refreshing = FALSE
    /\ episode_parts = snap
    /\ newly_added = EmptyDict
    /\ newly_updated = EmptyDict
    /\ last_refresh = 0
    /\ cache_file = CacheDocument(EmptyDict, EmptyDict, snap, IsoFormat(0))
    /\ now = 0
    /\ cpc = [t \in Threads |-> "idle"]
    /\ loc = [t \in Threads |-> NoLocals]
    /\ ret = [t \in Threads |-> NoReturn]
    /\ granted = [x \in Episodes \X Times |-> 0]
    /\ ugranted = [e \in Episodes |-> 0]
    /\ propagated = [e \in Episodes |-> 0]
    /\ default_streams = 0
    /\ HandlerStart

Init ==
    /\ trigger_on_play \in BOOLEAN
    /\ trigger_on_scan \in BOOLEAN
    /\ trigger_on_activity \in BOOLEAN
    /\ PipeStart
    /\ spc = "idle"
    /\ CacheStart(EmptyDict, EmptyDict)

\* ------------------------------------------------------- listener: __call__
\* __call__(message) up to the early return or the start of the for loop.
Receive(m) ==
    /\ lpc \in {"idle", "ignored"}
    /\ Accepted(m) => nput + m.k <= MaxAlerts
    /\ idx' = 1
    /\ IF ~Accepted(m) THEN lpc' = "ignored" /\ msg' = NoMessage
       ELSE IF m.k > 0 THEN lpc' = "put" /\ msg' = m
       ELSE lpc' = "idle" /\ msg' = NoMessage
    /\ UNCHANGED <<configVars, alerts_queue, stop_event, nput, processorVars, spc, cacheVars, handlerVars>>

\* Queue.put at the head of the queue instead of its tail.
EnqueueFront(q, a) == <<a>> \o q

\* Queue.put(alert): FIFO append.
Enqueue(q, a) == Append(q, a)

\* One iteration of the for loop of __call__: alert_class(alert_message), put.
Put ==
    /\ lpc = "put"
    /\ alerts_queue' = Enqueue(alerts_queue, [id |-> nput + 1,
                                             variant |-> AlertClass(Branch(msg.type)),
                                             entry |-> idx])
    /\ nput' = nput + 1
    /\ IF idx = msg.k
       THEN lpc' = "idle" /\ msg' = NoMessage /\ idx' = 1
       ELSE lpc' = "put" /\ msg' = msg /\ idx' = idx + 1
    /\ UNCHANGED <<configVars, stop_event, processorVars, spc, cacheVars, handlerVars>>

\* ------------------------------------------------------------------ stop()
Stop ==
    /\ ~stop_event
    /\ stop_event' = TRUE
    /\ UNCHANGED <<configVars, alerts_queue, listenerVars, processorVars, spc, cacheVars, handlerVars>>

\* ---------------------------------------------- processor: _process_alerts
InHandler == pc \in {"process", "tracks"}

\* The loop condition with the stop flag never observed.
LoopCheckBlind ==
    /\ pc = "loop"
    /\ pc' = "get"
    /\ UNCHANGED <<configVars, alerts_queue, stop_event, listenerVars, alert,
                   retry_counter, firstInvoked, outcome, afterStop, spc, cacheVars, handlerVars>>

\* while not self._stop_event.is_set()
LoopCheck ==
    /\ pc = "loop"
    /\ pc' = IF stop_event THEN "done" ELSE "get"
    /\ UNCHANGED <<configVars, alerts_queue, stop_event, listenerVars, alert,
                   retry_counter, firstInvoked, outcome, afterStop, spc, cacheVars, handlerVars>>

\* The guard of the get: a new alert is fetched whatever the retry counter.
FetchAlways(rc) == TRUE

\* if retry_counter == 0
FetchNext(rc) == rc = 0

\* alert = self._alerts_queue.get(True, 1) returning an item, then the call of
\* alert.process(self._plex).
GetAlert ==
    /\ pc = "get"
    /\ FetchNext(retry_counter)
    /\ alerts_queue # <<>>
    /\ alert' = Head(alerts_queue)
    /\ alerts_queue' = Tail(alerts_queue)
    /\ firstInvoked' = Append(firstInvoked, Head(alerts_queue).id)
    /\ afterStop' = IF stop_event THEN afterStop + 1 ELSE afterStop
    /\ pc' = "process"
    /\ UNCHANGED <<configVars, stop_event, listenerVars, retry_counter, outcome,
                   spc, cacheVars, handlerVars>>

\* The get raising Empty after its 1 s timeout: except Empty: pass.
GetEmpty ==
    /\ pc = "get"
    /\ FetchNext(retry_counter)
    /\ alerts_queue = <<>>
    /\ pc' = "loop"
    /\ UNCHANGED <<configVars, alerts_queue, stop_event, listenerVars, alert,
                   retry_counter, firstInvoked, outcome, afterStop, spc, cacheVars, handlerVars>>

\* retry_counter != 0: the get is skipped and alert.process is called on the
\* alert still held.
Retry ==
    /\ pc = "get"
    /\ ~FetchNext(retry_counter)
    /\ afterStop' = IF stop_event THEN afterStop + 1 ELSE afterStop
    /\ pc' = "process"
    /\ UNCHANGED <<configVars, alerts_queue, stop_event, listenerVars, alert,
                   retry_counter, firstInvoked, outcome, spc, cacheVars, handlerVars>>

\* The handlers that reach a TrackChanges compute/apply: PlexStatus.process
\* and PlexTimeline.process through process_new_or_updated_episode,
\* PlexPlaying.process and PlexActivity.process through change_tracks.
ReachesTrackSelection(variant) == variant \in {"Status", "Timeline", "Playing", "Activity"}

\* The handler enters TrackChanges.compute (followed by apply).
HandlerTrackSelectionBegin ==
    /\ pc = "process"
    /\ ReachesTrackSelection(alert.variant)
    /\ pc' = "tracks"
    /\ UNCHANGED <<configVars, alerts_queue, stop_event, listenerVars, alert,
                   retry_counter, firstInvoked, outcome, afterStop, spc, cacheVars, handlerVars>>

\* TrackChanges.apply returns to the handler.
HandlerTrackSelectionEnd ==
    /\ pc = "tracks"
    /\ pc' = "process"
    /\ UNCHANGED <<configVars, alerts_queue, stop_event, listenerVars, alert,
                   retry_counter, firstInvoked, outcome, afterStop, spc, cacheVars, handlerVars>>

\* alert.process returns: retry_counter = 0.
HandlerOk ==
    /\ pc = "process"
    /\ retry_counter' = 0
    /\ outcome' = "ok"
    /\ pc' = "loop"
    /\ UNCHANGED <<configVars, alerts_queue, stop_event, listenerVars, alert,
                   firstInvoked, afterStop, spc, cacheVars, handlerVars>>

\* retry_counter += 1. The loop only tests retry_counter == 0, so the model
\* stops counting at MaxRetry: every value from MaxRetry on stands for
\* "MaxRetry or more".
AfterTimeout(rc) == IF rc < MaxRetry THEN rc + 1 ELSE rc

\* The except branch that never comes back from its sleep.
HandlerTimeoutAsleep ==
    /\ InHandler
    /\ retry_counter' = AfterTimeout(retry_counter)
    /\ outcome' = "timeout"
    /\ pc' = "asleep"
    /\ UNCHANGED <<configVars, alerts_queue, stop_event, listenerVars, alert,
                   firstInvoked, afterStop, spc, cacheVars, handlerVars>>

\* except (ReadTimeout, ReadTimeoutError): count, log, sleep(1).
HandlerTimeout ==
    /\ InHandler
    /\ retry_counter' = AfterTimeout(retry_counter)
    /\ outcome' = "timeout"
    /\ pc' = "loop"
    /\ UNCHANGED <<configVars, alerts_queue, stop_event, listenerVars, alert,
                   firstInvoked, afterStop, spc, cacheVars, handlerVars>>

\* The connection-lost branch counting a retry as the timeout branch does.
AfterConnectionLostRetry(rc) == IF rc < MaxRetry THEN rc + 1 ELSE rc

\* retry_counter = 0 of the connection-lost branch.
AfterConnectionLost(rc) == 0

\* except (RemoteDisconnected, ProtocolError, ConnectionError): skip the alert.
HandlerConnectionLost ==
    /\ InHandler
    /\ retry_counter' = AfterConnectionLost(retry_counter)
    /\ outcome' = "connection"
    /\ pc' = "loop"
    /\ UNCHANGED <<configVars, alerts_queue, stop_event, listenerVars, alert,
                   firstInvoked, afterStop, spc, cacheVars, handlerVars>>

\* except Exception: logger.exception, retry_counter = 0.
HandlerException ==
    /\ InHandler
    /\ retry_counter' = 0
    /\ outcome' = "exception"
    /\ pc' = "loop"
    /\ UNCHANGED <<configVars, alerts_queue, stop_event, listenerVars, alert,
                   firstInvoked, afterStop, spc, cacheVars, handlerVars>>

HandlerReturn ==
    HandlerOk \/ HandlerTimeout \/ HandlerConnectionLost \/ HandlerException

\* ------------------------------------- scheduler thread: start_deep_analysis
\* Scheduler.run fires the daily job: scheduler_callback calls
\* plex.start_deep_analysis() on the scheduler thread.
DeepAnalysisStart ==
    /\ spc = "idle"
    /\ spc' = "history"
    /\ UNCHANGED <<pipeVars, cacheVars, handlerVars>>

\* The history loop: self.change_tracks(user.name, episode, SCHEDULER) enters
\* TrackChanges.compute (followed by apply).
DeepChangeTracksBegin ==
    /\ spc = "history"
    /\ spc' = "change_tracks"
    /\ UNCHANGED <<pipeVars, cacheVars, handlerVars>>

\* change_tracks returns to the history loop.
DeepChangeTracksEnd ==
    /\ spc = "change_tracks"
    /\ spc' = "history"
    /\ UNCHANGED <<pipeVars, cacheVars, handlerVars>>

\* The history loop ends: added, updated = self.cache.refresh_library_cache().
DeepScan ==
    /\ spc = "history"
    /\ spc' = "scan"
    /\ UNCHANGED <<pipeVars, cacheVars, handlerVars>>

\* The added / updated loops: process_new_or_updated_episode enters
\* change_track_for_user (TrackChanges compute and apply).
DeepPropagateBegin ==
    /\ spc = "scan"
    /\ spc' = "propagate"
    /\ UNCHANGED <<pipeVars, cacheVars, handlerVars>>

\* process_new_or_updated_episode returns to the loop.
DeepPropagateEnd ==
    /\ spc = "propagate"
    /\ spc' = "scan"
    /\ UNCHANGED <<pipeVars, cacheVars, handlerVars>>

\* start_deep_analysis returns.
DeepAnalysisEnd ==
    /\ spc = "scan"
    /\ spc' = "idle"
    /\ UNCHANGED <<pipeVars, cacheVars, handlerVars>>

\* A thread is inside a TrackChanges compute/apply.
ProcessorSelectsTracks == pc = "tracks"

SchedulerSelectsTracks == spc \in {"change_tracks", "propagate"}

\* --------------------------------- PlexServerCache.refresh_library_cache
\* Time passes.
Tick ==
    /\ now < MaxClock
    /\ now' = now + 1
    /\ UNCHANGED <<pipeVars, spc, handlerVars, default_streams, ugranted, propagated,
                   library, is_refreshing, episode_parts, newly_added,
                   newly_updated, last_refresh, cache_file, cpc, loc, ret, granted>>

\* if self._is_refreshing: return [], []
RefreshSkip(t) ==
    /\ cpc[t] = "idle"
    /\ is_refreshing
    /\ ret' = [ret EXCEPT ![t] = [kind |-> "skipped", added |-> <<>>, updated |-> <<>>]]
    /\ UNCHANGED <<pipeVars, spc, handlerVars, default_streams, ugranted, propagated,
                   library, is_refreshing, episode_parts, newly_added,
                   newly_updated, last_refresh, cache_file, now, cpc, loc, granted>>

\* The same test found false: the call goes on to set the flag. The test and
\* the assignment are two statements; another thread can run between them.
RefreshPass(t) ==
    /\ cpc[t] = "idle"
    /\ ~is_refreshing
    /\ cpc' = [cpc EXCEPT ![t] = "r_set"]
    /\ ret' = [ret EXCEPT ![t] = NoReturn]
    /\ UNCHANGED <<pipeVars, spc, handlerVars, default_streams, ugranted, propagated,
                   library, is_refreshing, episode_parts, newly_added,
                   newly_updated, last_refresh, cache_file, now, loc, granted>>

\* self._is_refreshing = True; added = []; updated = []; new_episode_parts = {}
RefreshSetFlag(t) ==
    /\ cpc[t] = "r_set"
    /\ is_refreshing' = TRUE
    /\ loc' = [loc EXCEPT ![t] = NoLocals]
    /\ cpc' = [cpc EXCEPT ![t] = "r_fetch"]
    /\ UNCHANGED <<pipeVars, spc, handlerVars, default_streams, ugranted, propagated,
                   library, episode_parts, newly_added,
                   newly_updated, last_refresh, cache_file, now, ret, granted>>

\* self._plex.episodes(): the list the for loop iterates.
RefreshFetch(t) ==
    /\ cpc[t] = "r_fetch"
    /\ loc' = [loc EXCEPT ![t].eps = library, ![t].pos = 1]
    /\ cpc' = [cpc EXCEPT ![t] = "r_loop"]
    /\ UNCHANGED <<pipeVars, spc, handlerVars, default_streams, ugranted, propagated,
                   library, is_refreshing, episode_parts, newly_added,
                   newly_updated, last_refresh, cache_file, now, ret, granted>>

\* episode.key in self.episode_parts
IsUpdatedAnyPresent(snapshot, e, parts) == e \in DOMAIN snapshot

\* episode.key in self.episode_parts and
\* set(self.episode_parts[episode.key]) != set(part_list)
IsUpdated(snapshot, e, parts) == e \in DOMAIN snapshot /\ snapshot[e] # parts

\* elif episode.key not in self.episode_parts
IsAdded(snapshot, e) == e \notin DOMAIN snapshot

\* One iteration of the for loop: record the parts, classify the episode
\* against self.episode_parts.
RefreshLoop(t) ==
    /\ cpc[t] = "r_loop"
    /\ loc[t].pos <= Len(EpisodeList(loc[t].eps))
    /\ LET e == EpisodeList(loc[t].eps)[loc[t].pos]
           parts == loc[t].eps[e]
           upd == IsUpdated(episode_parts, e, parts)
       IN loc' = [loc EXCEPT
                    ![t].new_episode_parts = DictSet(@, e, parts),
                    ![t].updated = IF upd THEN Append(@, e) ELSE @,
                    ![t].added = IF ~upd /\ IsAdded(episode_parts, e) THEN Append(@, e) ELSE @,
                    ![t].pos = @ + 1]
    /\ UNCHANGED <<pipeVars, spc, handlerVars, default_streams, ugranted, propagated,
                   library, is_refreshing, episode_parts, newly_added,
                   newly_updated, last_refresh, cache_file, now, cpc, ret, granted>>

\* self.episode_parts = new_episode_parts, moved into the loop body.
RefreshAssignInLoop(t) ==
    /\ cpc[t] = "r_loop"
    /\ loc[t].pos > 1
    /\ episode_parts' = loc[t].new_episode_parts
    /\ cpc' = [cpc EXCEPT ![t] = "r_stamp"]
    /\ UNCHANGED <<pipeVars, spc, handlerVars, default_streams, ugranted, propagated,
                   library, is_refreshing, newly_added,
                   newly_updated, last_refresh, cache_file, now, loc, ret, granted>>

\* self.episode_parts = new_episode_parts
RefreshAssign(t) ==
    /\ cpc[t] = "r_loop"
    /\ loc[t].pos > Len(EpisodeList(loc[t].eps))
    /\ episode_parts' = loc[t].new_episode_parts
    /\ cpc' = [cpc EXCEPT ![t] = "r_stamp"]
    /\ UNCHANGED <<pipeVars, spc, handlerVars, default_streams, ugranted, propagated,
                   library, is_refreshing, newly_added,
                   newly_updated, last_refresh, cache_file, now, loc, ret, granted>>

\* self._last_refresh = datetime.now()
RefreshStamp(t) ==
    /\ cpc[t] = "r_stamp"
    /\ last_refresh' = now
    /\ ugranted' = [e \in Episodes |-> 0]
    /\ cpc' = [cpc EXCEPT ![t] = "r_save"]
    /\ UNCHANGED <<pipeVars, spc, handlerVars, default_streams, propagated,
                   library, is_refreshing, episode_parts, newly_added,
                   newly_updated, cache_file, now, loc, ret, granted>>

\* save(): the document written from the current fields.
SavedDocument ==
    CacheDocument([k \in DOMAIN newly_updated |-> IsoFormat(newly_updated[k])],
                  [k \in DOMAIN newly_added |-> IsoFormat(newly_added[k])],
                  episode_parts, IsoFormat(last_refresh))

\* self.save()
RefreshSave(t) ==
    /\ cpc[t] = "r_save"
    /\ cache_file' = SavedDocument
    /\ cpc' = [cpc EXCEPT ![t] = "r_clear"]
    /\ UNCHANGED <<pipeVars, spc, handlerVars, default_streams, ugranted, propagated,
                   library, is_refreshing, episode_parts, newly_added,
                   newly_updated, last_refresh, now, loc, ret, granted>>

\* self._is_refreshing = False; return added, updated
RefreshReturn(t) ==
    /\ cpc[t] = "r_clear"
    /\ is_refreshing' = FALSE
    /\ ret' = [ret EXCEPT ![t] = [kind |-> "scanned", added |-> loc[t].added,
                                   updated |-> loc[t].updated]]
    /\ loc' = [loc EXCEPT ![t] = NoLocals]
    /\ cpc' = [cpc EXCEPT ![t] = "idle"]
    /\ UNCHANGED <<pipeVars, spc, handlerVars, default_streams, ugranted, propagated,
                   library, episode_parts, newly_added,
                   newly_updated, last_refresh, cache_file, now, granted>>

\* self._plex.episodes() or episode.iterParts() raises (a fault of the media
\* server): the method has no try/finally, so the exception leaves it with
\* the flag as it stands.
RefreshFault(t) ==
    /\ \/ cpc[t] = "r_fetch"
       \/ cpc[t] = "r_loop" /\ loc[t].pos <= Len(EpisodeList(loc[t].eps))
    /\ ret' = [ret EXCEPT ![t] = [kind |-> "raised", added |-> <<>>, updated |-> <<>>]]
    /\ loc' = [loc EXCEPT ![t] = NoLocals]
    /\ cpc' = [cpc EXCEPT ![t] = "idle"]
    /\ UNCHANGED <<pipeVars, spc, handlerVars, default_streams, ugranted, propagated,
                   library, is_refreshing, episode_parts, newly_added,
                   newly_updated, last_refresh, cache_file, now, granted>>

\* The positions of a call that performs the scan.
ScanPositions == {"r_fetch", "r_loop", "r_stamp", "r_save", "r_clear"}

\* ------------------------- PlexServerCache.should_process_recently_added
\* if episode_id in self.newly_added and self.newly_added[episode_id] == added_at
AlreadyAdded(e, at) == e \in DOMAIN newly_added /\ newly_added[e] = at

\* The test found true: return False.
AddedCheckHit(t, e, at) ==
    /\ cpc[t] = "idle"
    /\ AlreadyAdded(e, at)
    /\ UNCHANGED vars

\* The test found false: the call goes on to record the episode.
AddedCheckMiss(t, e, at) ==
    /\ cpc[t] = "idle"
    /\ ~AlreadyAdded(e, at)
    /\ loc' = [loc EXCEPT ![t].episode_id = e, ![t].added_at = at]
    /\ cpc' = [cpc EXCEPT ![t] = "a_store"]
    /\ UNCHANGED <<pipeVars, spc, handlerVars, default_streams, ugranted, propagated,
                   library, is_refreshing, episode_parts, newly_added,
                   newly_updated, last_refresh, cache_file, now, ret, granted>>

\* self.newly_added[episode_id] = added_at; return True. The caller's branch
\* on True follows (Propagate).
AddedStore(t) ==
    /\ cpc[t] = "a_store"
    /\ newly_added' = DictSet(newly_added, loc[t].episode_id, loc[t].added_at)
    /\ granted' = [granted EXCEPT ![<<loc[t].episode_id, loc[t].added_at>>] =
                       IF @ < 2 THEN @ + 1 ELSE @]
    /\ cpc' = [cpc EXCEPT ![t] = "a_true"]
    /\ UNCHANGED <<pipeVars, spc, handlerVars, default_streams, ugranted, propagated,
                   library, is_refreshing, episode_parts,
                   newly_updated, last_refresh, cache_file, now, loc, ret>>

\* ----------------------- PlexServerCache.should_process_recently_updated
\* self.newly_updated[episode_id] > self._last_refresh
StillFreshStrict(stamp, refreshed) == stamp > refreshed

\* self.newly_updated[episode_id] >= self._last_refresh
StillFresh(stamp, refreshed) == stamp >= refreshed

\* if episode_id in self.newly_updated and ... >= self._last_refresh
AlreadyUpdated(e) ==
    e \in DOMAIN newly_updated /\ StillFresh(newly_updated[e], last_refresh)

\* The test found true: return False.
UpdatedCheckHit(t, e) ==
    /\ cpc[t] = "idle"
    /\ AlreadyUpdated(e)
    /\ ret' = [ret EXCEPT ![t] = [kind |-> "refused", added |-> <<>>, updated |-> <<>>]]
    /\ UNCHANGED <<pipeVars, spc, handlerVars, default_streams, ugranted, propagated,
                   library, is_refreshing, episode_parts, newly_added,
                   newly_updated, last_refresh, cache_file, now, cpc, loc, granted>>

\* The test found false: the call goes on to record the episode.
UpdatedCheckMiss(t, e) ==
    /\ cpc[t] = "idle"
    /\ ~AlreadyUpdated(e)
    /\ loc' = [loc EXCEPT ![t].episode_id = e]
    /\ cpc' = [cpc EXCEPT ![t] = "u_store"]
    /\ UNCHANGED <<pipeVars, spc, handlerVars, default_streams, ugranted, propagated,
                   library, is_refreshing, episode_parts, newly_added,
                   newly_updated, last_refresh, cache_file, now, ret, granted>>

\* self.newly_updated[episode_id] = datetime.now(); return True
UpdatedStore(t) ==
    /\ cpc[t] = "u_store"
    /\ newly_updated' = DictSet(newly_updated, loc[t].episode_id, now)
    /\ ugranted' = [ugranted EXCEPT ![loc[t].episode_id] = IF @ < 2 THEN @ + 1 ELSE @]
    /\ ret' = [ret EXCEPT ![t] = [kind |-> "granted", added |-> <<>>, updated |-> <<>>]]
    /\ cpc' = [cpc EXCEPT ![t] = "a_true"]
    /\ UNCHANGED <<pipeVars, spc, handlerVars, default_streams, propagated,
                   library, is_refreshing, episode_parts, newly_added,
                   last_refresh, cache_file, now, loc, granted>>

\* The caller's branch on True: process_new_or_updated_episode(item.key, ..)
\* with new=True after should_process_recently_added, new=False after
\* should_process_recently_updated.
Propagate(t) ==
    /\ cpc[t] = "a_true"
    /\ propagated' = IF loc[t].added_at # 0
                      THEN [propagated EXCEPT ![loc[t].episode_id] = IF @ < 2 THEN @ + 1 ELSE @]
                      ELSE propagated
    /\ loc' = [loc EXCEPT ![t] = NoLocals]
    /\ cpc' = [cpc EXCEPT ![t] = "idle"]
    /\ UNCHANGED <<pipeVars, spc, handlerVars, default_streams, ugranted,
                   library, is_refreshing, episode_parts, newly_added,
                   newly_updated, last_refresh, cache_file, now, ret, granted>>

\* ------------------------------------------------------- TrackChanges
\* None where a stream is expected, and where an attribute of a stream is.
None == [none |-> TRUE]
Missing == "None"

\* The audio streams the parts are made of. displayTitle stands for
\* extendedDisplayTitle / displayTitle.
AudioCatalogue ==
    { [languageCode |-> "en", codec |-> "aac", channels |-> 2, audioChannelLayout |-> "stereo",
       title |-> "English", displayTitle |-> "English", visualImpaired |-> FALSE],
      [languageCode |-> "en", codec |-> "ac3", channels |-> 6, audioChannelLayout |-> "5.1",
       title |-> "English", displayTitle |-> "English", visualImpaired |-> FALSE],
      [languageCode |-> "en", codec |-> "aac", channels |-> 2, audioChannelLayout |-> "stereo",
       title |-> "Commentary", displayTitle |-> "Commentary", visualImpaired |-> FALSE],
      [languageCode |-> "en", codec |-> "aac", channels |-> 2, audioChannelLayout |-> "stereo",
       title |-> Missing, displayTitle |-> Missing, visualImpaired |-> TRUE],
      [languageCode |-> "fr", codec |-> "aac", channels |-> 2, audioChannelLayout |-> "stereo",
       title |-> Missing, displayTitle |-> "French", visualImpaired |-> FALSE] }

\* The subtitle streams the parts are made of.
SubtitleCatalogue ==
    { [languageCode |-> "en", forced |-> FALSE, hearingImpaired |-> FALSE, codec |-> "srt",
       title |-> Missing],
      [languageCode |-> "en", forced |-> TRUE, hearingImpaired |-> FALSE, codec |-> "srt",
       title |-> "Forced"],
      [languageCode |-> "en", forced |-> FALSE, hearingImpaired |-> TRUE, codec |-> "ass",
       title |-> "SDH"],
      [languageCode |-> "fr", forced |-> FALSE, hearingImpaired |-> FALSE, codec |-> "srt",
       title |-> Missing] }

\* Titles that contain one of the descriptive terms; those that contain
\* "commentary".
DescriptiveTitles == {"Commentary", "Audio Description"}
CommentaryTitles == {"Commentary"}

\* Index of the first largest score: scores.index(max(scores)).
FirstMax(scores) ==
    CHOOSE i \in 1..Len(scores) :
        /\ \A j \in 1..Len(scores) : scores[j] <= scores[i]
        /\ \A j \in 1..(i - 1) : scores[j] < scores[i]

\* The language filter of _match_audio_stream left out.
SameLanguageAny(a, b) == TRUE

\* s.languageCode == self._audio_stream.languageCode
SameLanguage(a, b) == a = b

\* The filters applied even where they leave no stream.
AudioCandidatesStrict(refA, audios) ==
    LET Title(st) == IF st.displayTitle # Missing THEN st.displayTitle
                     ELSE IF st.title # Missing THEN st.title ELSE ""
        Desc(st) == Title(st) \in DescriptiveTitles
    IN SelectSeq([i \in 1..Len(audios) |-> i],
                 LAMBDA i : /\ SameLanguage(audios[i].languageCode, refA.languageCode)
                            /\ audios[i].visualImpaired = refA.visualImpaired
                            /\ Desc(audios[i]) = Desc(refA))

\* _match_audio_stream, lines 283-342: the indices of the streams left by the
\* language filter and the two impairment filters, in list order.
AudioCandidates(refA, audios) ==
    LET All == [i \in 1..Len(audios) |-> i]
        Keep(seq, P(_)) == SelectSeq(seq, P)
        OrSame(f, seq) == IF f = <<>> THEN seq ELSE f
        Title(st) == IF st.displayTitle # Missing THEN st.displayTitle
                     ELSE IF st.title # Missing THEN st.title ELSE ""
        Desc(st) == Title(st) \in DescriptiveTitles
        byLang == Keep(All, LAMBDA i : SameLanguage(audios[i].languageCode, refA.languageCode))
        byVi == IF refA.visualImpaired
                THEN OrSame(Keep(byLang, LAMBDA i : audios[i].visualImpaired), byLang)
                ELSE OrSame(Keep(byLang, LAMBDA i : ~audios[i].visualImpaired), byLang)
    IN IF Desc(refA)
       THEN OrSame(Keep(byVi, LAMBDA i : Desc(audios[i])), byVi)
       ELSE OrSame(Keep(byVi, LAMBDA i : ~Desc(audios[i])), byVi)

\* ambiguous, line 286: every stream of the part has the title of the first.
Ambiguous(audios) == \A i \in 1..Len(audios) : audios[i].title = audios[1].title

\* _match_audio_stream, lines 345-369: the score of one candidate.
AudioScore(refA, st, ambiguous) ==
    (IF refA.codec = st.codec THEN 5 ELSE 0)
    + (IF refA.audioChannelLayout = st.audioChannelLayout THEN 3 ELSE 0)
    + (IF ~ambiguous THEN 0
       ELSE IF refA.channels < 3
            THEN (IF refA.channels < st.channels THEN 8 ELSE 0)
            ELSE (IF refA.channels <= st.channels THEN 1 ELSE 0))
    + (IF refA.title # Missing /\ st.title # Missing /\ refA.title = st.title THEN 5 ELSE 0)

\* _match_audio_stream: index of the matched stream in audio_streams, 0 for
\* None.
MatchAudio(refA, audios) ==
    IF refA = None THEN 0
    ELSE
    LET streams == AudioCandidates(refA, audios)
    IN IF streams = <<>> THEN 0
       ELSE IF Len(streams) = 1 THEN streams[1]
       ELSE streams[FirstMax([k \in 1..Len(streams) |->
                                 AudioScore(refA, audios[streams[k]], Ambiguous(audios))])]

\* match_forced_only left false when the reference has no subtitle.
ForcedOnlyNever(refS) == IF refS = None THEN FALSE ELSE refS.forced

\* match_forced_only: True when the reference has no subtitle selected, else
\* the reference subtitle's forced flag.
ForcedOnly(refS) == IF refS = None THEN TRUE ELSE refS.forced

\* _match_subtitle_stream: index of the matched stream in subtitle_streams,
\* 0 for None.
MatchSubtitle(refA, refS, subs) ==
    IF refS = None /\ refA = None THEN 0
    ELSE
    LET All == [i \in 1..Len(subs) |-> i]
        hiOnly == IF refS = None THEN FALSE ELSE refS.hearingImpaired
        language_code == IF refS = None THEN refA.languageCode ELSE refS.languageCode
        byLang == SelectSeq(All, LAMBDA i : SameLanguage(subs[i].languageCode, language_code))
        byForced == IF ForcedOnly(refS) THEN SelectSeq(byLang, LAMBDA i : subs[i].forced)
                    ELSE byLang
        byHi == IF hiOnly THEN SelectSeq(byForced, LAMBDA i : subs[i].hearingImpaired)
                ELSE byForced
        Score(st) ==
            IF refS = None THEN 0
            ELSE (IF refS.forced = st.forced THEN 3 ELSE 0)
                 + (IF refS.hearingImpaired = st.hearingImpaired THEN 3 ELSE 0)
                 + (IF refS.codec # Missing /\ st.codec # Missing /\ refS.codec = st.codec
                    THEN 1 ELSE 0)
                 + (IF refS.title # Missing /\ st.title # Missing /\ refS.title = st.title
                    THEN 5 ELSE 0)
    IN IF byHi = <<>> THEN 0
       ELSE IF Len(byHi) = 1 THEN byHi[1]
       ELSE byHi[FirstMax([k \in 1..Len(byHi) |-> Score(subs[byHi[k]])])]

\* The parts a run may meet: up to MaxStreams streams of each kind, any one
\* of them selected or none.
Parts ==
    LET StreamLists(catalogue) == UNION {[1..n -> catalogue] : n \in 0..MaxStreams}
    IN {[audio |-> a, subs |-> sb, selAudio |-> x, selSub |-> y] :
           <<a, sb, x, y>> \in
               {q \in StreamLists(AudioCatalogue) \X StreamLists(SubtitleCatalogue)
                       \X (0..MaxStreams) \X (0..MaxStreams) :
                   q[3] <= Len(q[1]) /\ q[4] <= Len(q[2])}}

\* The matched subtitle recorded whether or not it is the selected one.
SubtitleChangeAlways(part, ma, ms) ==
    IF ms = 0 THEN (IF part.selSub # 0 THEN <<0>> ELSE <<>>) ELSE <<ms>>

\* compute, lines 183-193: the subtitle change of one part, as the sequence
\* of the new stream (0: reset) or the empty sequence; ma and ms are the
\* matched audio and subtitle streams.
SubtitleChange(part, ma, ms) ==
    IF part.selSub # 0 /\ ms = 0 THEN <<0>>
    ELSE IF ms # 0 /\ (part.selSub = 0 \/ ms # part.selSub)
    THEN IF /\ part.audio[part.selAudio].title # Missing
            /\ part.audio[part.selAudio].title \in CommentaryTitles
            /\ ma = 0
         THEN <<>>
         ELSE <<ms>>
    ELSE <<>>

\* compute, line 188: current_audio_stream.title is read where no audio
\* stream is selected.
ComputeFaults(refA, refS, part) ==
    LET ms == MatchSubtitle(refA, refS, part.subs)
    IN ms # 0 /\ (part.selSub = 0 \/ ms # part.selSub) /\ part.selAudio = 0

\* compute, lines 171-193: the changes of part number p.
PartChanges(refA, refS, p, part) ==
    LET ma == MatchAudio(refA, part.audio)
        ms == MatchSubtitle(refA, refS, part.subs)
        audio == IF part.selAudio # 0 /\ ma # 0 /\ ma # part.selAudio
                 THEN <<[part |-> p, kind |-> "audio", stream |-> ma]>>
                 ELSE <<>>
        sub == SubtitleChange(part, ma, ms)
    IN audio \o [i \in 1..Len(sub) |-> [part |-> p, kind |-> "subtitle", stream |-> sub[i]]]

\* compute: the changes of the parts up to the first one that faults.
RECURSIVE ComputeFrom(_, _, _, _)
ComputeFrom(refA, refS, ps, p) ==
    IF p > Len(ps) THEN [fault |-> FALSE, changes |-> <<>>]
    ELSE IF ComputeFaults(refA, refS, ps[p])
    THEN [fault |-> TRUE,
          changes |-> LET ma == MatchAudio(refA, ps[p].audio)
                      IN IF ps[p].selAudio # 0 /\ ma # 0 /\ ma # ps[p].selAudio
                         THEN <<[part |-> p, kind |-> "audio", stream |-> ma]>> ELSE <<>>]
    ELSE LET rest == ComputeFrom(refA, refS, ps, p + 1)
         IN [fault |-> rest.fault,
             changes |-> PartChanges(refA, refS, p, ps[p]) \o rest.changes]

\* TrackChanges(username, reference, event_type) on a reference episode whose
\* selected streams are a and sb, then get_episodes_to_update: the targets ps.
TrackNew(a, sb, ps) ==
    /\ tpc = "idle"
    /\ tpc' = "new"
    /\ audio_stream' = a
    /\ subtitle_stream' = sb
    /\ targets' = ps
    /\ changes' = <<>>
    /\ UNCHANGED <<applied, passes, update, nonTrackVars, pipeVars, spc, cacheVars>>

\* compute. An AttributeError leaves _changes as far as it got.
Compute ==
    /\ tpc \in {"new", "applied"}
    /\ LET r == ComputeFrom(audio_stream, subtitle_stream, targets, 1)
       IN /\ changes' = r.changes
          /\ tpc' = IF r.fault THEN "fault" ELSE "computed"
    /\ UNCHANGED <<audio_stream, subtitle_stream, targets, applied, passes, update, nonTrackVars,
                   pipeVars, spc, cacheVars>>

\* apply: begins with the first change; returns at once without changes.
ApplyBegin ==
    /\ tpc \in {"computed", "applied"}
    /\ passes < MaxPasses
    /\ applied' = 0
    /\ tpc' = "applying"
    /\ UNCHANGED <<audio_stream, subtitle_stream, targets, changes, passes, update, nonTrackVars,
                   pipeVars, spc, cacheVars>>

\* The stream a change selects is written to the other kind's selection.
ApplyChangeSwapped(part, change) ==
    IF change.kind = "audio" THEN [part EXCEPT !.selSub = change.stream]
    ELSE [part EXCEPT !.selAudio = change.stream]

\* apply, lines 205-217: setSelectedAudioStream, resetSelectedSubtitleStream
\* or setSelectedSubtitleStream on the part of the change.
ApplyChange(part, change) ==
    IF change.kind = "audio" THEN [part EXCEPT !.selAudio = change.stream]
    ELSE [part EXCEPT !.selSub = change.stream]

\* One iteration of the loop of apply.
ApplyStep ==
    /\ tpc = "applying"
    /\ applied < Len(changes)
    /\ LET change == changes[applied + 1]
       IN targets' = [targets EXCEPT ![change.part] = ApplyChange(targets[change.part], change)]
    /\ applied' = applied + 1
    /\ UNCHANGED <<tpc, audio_stream, subtitle_stream, changes, passes, update, nonTrackVars,
                   pipeVars, spc, cacheVars>>

\* The rejected write made all the same.
ApplyFaultLate ==
    /\ tpc = "applying"
    /\ applied < Len(changes)
    /\ LET change == changes[applied + 1]
       IN targets' = [targets EXCEPT ![change.part] = ApplyChange(targets[change.part], change)]
    /\ tpc' = "rejected"
    /\ UNCHANGED <<audio_stream, subtitle_stream, changes, applied, passes, update,
                   nonTrackVars, pipeVars, spc, cacheVars>>

\* The media server rejects the write of the next change: the call of lines
\* 213-217 raises, and apply has no handler, so the loop ends there and the
\* exception leaves apply.
ApplyFault ==
    /\ tpc = "applying"
    /\ applied < Len(changes)
    /\ tpc' = "rejected"
    /\ UNCHANGED <<audio_stream, subtitle_stream, targets, changes, applied, passes, update,
                   nonTrackVars, pipeVars, spc, cacheVars>>

\* apply returns.
ApplyEnd ==
    /\ tpc = "applying"
    /\ applied = Len(changes)
    /\ tpc' = "applied"
    /\ passes' = passes + 1
    /\ UNCHANGED <<audio_stream, subtitle_stream, targets, changes, applied, update, nonTrackVars,
                   pipeVars, spc, cacheVars>>

\* --------------------------------- TrackChanges.get_episodes_to_update
MaxSeason == 2
MaxNumber == 2

\* The reference itself counted as after.
IsEpisodeAfterOrSame(reference, episode) ==
    \/ reference[1] < episode[1]
    \/ reference[1] = episode[1] /\ reference[2] <= episode[2]

\* _is_episode_after; an episode is <<seasonNumber, episodeNumber>>.
IsEpisodeAfter(reference, episode) ==
    \/ reference[1] < episode[1]
    \/ reference[1] = episode[1] /\ reference[2] < episode[2]

\* get_episodes_to_update on a show whose episodes() are show:
\* reference.show().episodes() or reference.season().episodes(), filtered by
\* _is_episode_after when the strategy is "next".
GetEpisodesToUpdate(show, reference, update_level, update_strategy) ==
    LET episodes == IF update_level = "show" THEN show
                    ELSE SelectSeq(show, LAMBDA e : e[1] = reference[1])
    IN IF update_strategy = "next"
       THEN SelectSeq(episodes, LAMBDA e : IsEpisodeAfter(reference, e))
       ELSE episodes

\* change_tracks, line 554: the call on a reference episode of a show that
\* has any of the episodes S1E1 .. S<MaxSeason>E<MaxNumber>, listed in season
\* and episode order.
EpisodesToUpdate(present, reference, update_level, update_strategy) ==
    LET all == [k \in 1..(MaxSeason * MaxNumber) |->
                   <<((k - 1) \div MaxNumber) + 1, ((k - 1) % MaxNumber) + 1>>]
        show == SelectSeq(all, LAMBDA e : e \in present)
    IN /\ reference \in present
       /\ update' = [show |-> show, reference |-> reference, level |-> update_level,
                     strategy |-> update_strategy,
                     episodes |-> GetEpisodesToUpdate(show, reference, update_level,
                                                      update_strategy)]
       /\ UNCHANGED <<tpc, audio_stream, subtitle_stream, targets, changes, applied, passes,
                      nonTrackVars, pipeVars, spc, cacheVars>>

\* ---------------------------- PlexServer.process_new_or_updated_episode
\* get_all_user_ids(): the owner, then the shared users.
UserIds == <<"owner", "shared1", "shared2">>

\* What the lookups of one user can give: no authenticated view
\* (get_plex_instance_of_user is None), no item, no reference episode, no
\* user record, a call that raises, or a plan that is applied, with or
\* without changes. The owner's view is the server itself and its record is
\* the logged user.
Resolutions(u) ==
    {"no_item", "no_reference", "raises", "changes", "no_changes"}
        \cup (IF u = "owner" THEN {} ELSE {"no_view", "no_user"})

\* track_changes = NewOrUpdatedTrackChanges(event_type, new), and what the
\* calls of the loop will meet.
PropagateBegin(r) ==
    /\ ppc = "idle"
    /\ ppc' = "loop"
    /\ resolves' = r
    /\ user_index' = 1
    /\ UNCHANGED <<served, notified, evicted, playVars, trackVars, pipeVars, spc, cacheVars>>

\* One iteration of the loop over the users, lines 517-537. Without a user
\* record the method returns (line 535).
PropagateUser ==
    /\ ppc = "loop"
    /\ LET u == UserIds[user_index]
           next == IF user_index < Len(UserIds) THEN "loop" ELSE "notify"
       IN /\ ppc' = CASE resolves[u] = "raises" -> "raised"
                      [] resolves[u] = "no_user" -> "done"
                      [] OTHER -> next
          /\ served' = IF resolves[u] \in {"changes", "no_changes"}
                       THEN served \cup {u} ELSE served
    /\ user_index' = user_index + 1
    /\ UNCHANGED <<resolves, notified, evicted, playVars, trackVars, pipeVars, spc, cacheVars>>

\* NewOrUpdatedTrackChanges.has_changes: some stored TrackChanges has changes.
HasChanges == \E u \in served : resolves[u] = "changes"

\* Lines 540-541: notify_changes if track_changes.has_changes.
PropagateNotify ==
    /\ ppc = "notify"
    /\ ppc' = "done"
    /\ notified' = IF HasChanges THEN notified + 1 ELSE notified
    /\ UNCHANGED <<resolves, user_index, served, evicted, playVars, trackVars, pipeVars, spc, cacheVars>>

\* ------------------------------------------ PlexPlaying.process: streams
\* if len(plex.cache.default_streams) > 10000
MaxDefaultStreams == 10000

\* The section titles of the server's libraries, and the ignore_libraries
\* parameter of the configuration.
LibraryTitles == {"TV", "Kids"}
IgnoreLibraries == {"Kids"}

\* plex.should_ignore_library(item.librarySectionTitle): the ignore rule by
\* library name.
ShouldIgnoreLibrary(title) == title \in IgnoreLibraries

\* How item.key stands in default_streams: held with the same pair of stream
\* ids, held with another pair, or not held.
KeyStates == {"same", "other", "absent"}

\* The size check dropped.
EvictNever(n) == n

\* if len > 10000: remove len // 10 randomly sampled keys
Evict(n) == IF n > MaxDefaultStreams THEN n - (n \div 10) ELSE n

\* PlexPlaying.process from the ignore rules on: return for an ignored
\* library; return when the selected pair is the recorded one; otherwise
\* default_streams[item.key] = pair_id, then the size limit.
PlayingStreams(title, known) ==
    /\ known \in {"same", "other"} => default_streams > 0
    /\ IF ShouldIgnoreLibrary(title) \/ known = "same"
       THEN UNCHANGED <<default_streams, evicted>>
       ELSE LET n == IF known = "absent" THEN default_streams + 1 ELSE default_streams
            IN /\ default_streams' = Evict(n)
               /\ evicted' = (Evict(n) # n)
    /\ UNCHANGED <<pipeVars, spc, trackVars, propVars, playVars, ugranted, propagated,
                   library, is_refreshing, episode_parts, newly_added,
                   newly_updated, last_refresh, cache_file, now, cpc, loc, ret, granted>>

\* PlexServerCache.clean_idle_caches: the same limit on default_streams.
CleanIdleCaches ==
    /\ default_streams' = Evict(default_streams)
    /\ UNCHANGED <<pipeVars, spc, handlerVars, ugranted, propagated,
                   library, is_refreshing, episode_parts, newly_added,
                   newly_updated, last_refresh, cache_file, now, cpc, loc, ret, granted>>

\* ------------------------------------------------- the alert handlers
\* The pairs of stream ids an item can have selected.
Pairs == {"p", "q"}

\* The user picks streams in a player.
UserSelects(item, pair) ==
    /\ selection' = [selection EXCEPT ![item] = pair]
    /\ written_by' = [written_by EXCEPT ![item] = IF pair = selection[item] THEN @ ELSE "user"]
    /\ UNCHANGED <<user_clients, session_states, default_pair, recent_activities,
                   selected_at, prev, last, evicted, propVars, trackVars, pipeVars, spc,
                   cacheVars>>

\* What an applied plan can leave selected: every item other than the
\* reference keeps its pair or takes the reference's.
Plans(ref) ==
    {f \in [DOMAIN selection -> Pairs] :
        /\ f[ref] = selection[ref]
        /\ \A i \in DOMAIN selection : f[i] \in {selection[i], selection[ref]}}

\* The items alerts are about: episodes E1 and E2 of a show in library TV,
\* episode K1 in library Kids, episode L1 of a show with an ignored label,
\* and a film.
Items == {"E1", "E2", "K1", "L1", "movie"}

\* written_by once the system has changed the selection to f.
Written(f) ==
    [i \in DOMAIN selection |->
        IF f[i] # selection[i] /\ written_by[i] = "none" THEN "system" ELSE written_by[i]]

\* plex.should_ignore_show(item.show()): the show carries an ignored label.
ShouldIgnoreShow(item) == item = "L1"

\* The ignore rules a handler applies before it selects tracks:
\* PlexStatus.process tests the show's labels only.
Ignores(variant, item) ==
    IF variant = "Status" THEN ShouldIgnoreShow(item)
    ELSE ShouldIgnoreLibrary(IF item = "K1" THEN "Kids" ELSE "TV") \/ ShouldIgnoreShow(item)

\* The session-state test dropped.
SameStateNever(stored, st) == FALSE

\* Lines 135-140: the state stored for the session key is the alert's.
SameState(stored, st) == stored = st

\* PlexPlaying.process for the alert of session k in state st on item;
\* found: the user of the client and its view resolve; old: the stored
\* entries are older than 24 hours.
PlayingProcess(k, st, item, found, old) ==
    LET uc1 == user_clients /\ ~old
        ss1 == IF old THEN [x \in DOMAIN session_states |-> "none"] ELSE session_states
        filtered == ~found \/ item = "movie" \/ Ignores("Playing", item)
        same_state == SameState(ss1[k], st)
        ss2 == IF st = "stopped" THEN [ss1 EXCEPT ![k] = "none"] ELSE [ss1 EXCEPT ![k] = st]
        n == IF default_pair[item] = "none" THEN default_streams + 1 ELSE default_streams
        Ended(how) == [variant |-> "Playing", item |-> item, outcome |-> how,
                       same |-> (prev[k].state = st),
                       repeated |-> (/\ prev[k].state = st /\ prev[k].reached
                                     /\ st # "stopped" /\ ~old),
                       cause |-> IF how # "tracks" THEN "none"
                                 ELSE IF default_pair[item] = "none" THEN "no_entry"
                                 ELSE IF default_pair[item] = selection[item] THEN "equal"
                                 ELSE written_by[item],
                       age |-> -1, since |-> -1]
    IN /\ prev' = [x \in DOMAIN prev |->
                      IF x = k THEN [state |-> st, reached |-> ~filtered]
                      ELSE [prev[x] EXCEPT !.reached = prev[x].reached /\ ~old]]
       /\ UNCHANGED <<recent_activities, selected_at>>
       /\ UNCHANGED <<propVars, trackVars, pipeVars, spc, ugranted, propagated,
                      library, is_refreshing, episode_parts, newly_added,
                      newly_updated, last_refresh, cache_file, now, cpc, loc, ret, granted>>
       /\ IF filtered \/ same_state
          THEN /\ user_clients' = (uc1 \/ found)
               /\ session_states' = ss1
               /\ last' = Ended(IF filtered THEN "filtered" ELSE "same_state")
               /\ UNCHANGED <<selection, written_by, default_pair, default_streams, evicted>>
          ELSE /\ user_clients' = (st # "stopped")
               /\ session_states' = ss2
               /\ IF default_pair[item] = selection[item]
                  THEN /\ last' = Ended("same_streams")
                       /\ UNCHANGED <<selection, written_by, default_pair, default_streams,
                                      evicted>>
                  ELSE /\ default_streams' = Evict(n)
                       /\ evicted' = (Evict(n) # n)
                       /\ default_pair' \in
                             {d \in [DOMAIN default_pair -> Pairs \cup {"none"}] :
                                 \A i \in DOMAIN d :
                                     \/ d[i] = IF i = item THEN selection[item]
                                                ELSE default_pair[i]
                                     \/ Evict(n) # n /\ d[i] = "none"}
                       /\ selection' \in Plans(item)
                       /\ written_by' = [Written(selection') EXCEPT ![item] = "none"]
                       /\ last' = Ended("tracks")

\* The retention of recent_activities and the minimum gap, in seconds.
Retention == 10
MinimumGap == 3

\* The gap test dropped.
TooSoonNever(stamp) == FALSE

\* Lines 141-142: the key has an entry younger than 3 seconds.
TooSoon(stamp) == stamp # -1 /\ stamp > now - MinimumGap

\* PlexActivity.process for the alert of the user on item; found: the event is
\* the end of a library refresh of an item and the user's view resolves;
\* known: get_user_by_id finds the user.
ActivityProcess(item, found, known) ==
    LET kept == [i \in DOMAIN recent_activities |->
                    IF recent_activities[i] # -1 /\ recent_activities[i] > now - Retention
                    THEN recent_activities[i] ELSE -1]
        filtered == ~found \/ item = "movie" \/ Ignores("Activity", item)
        Ended(how) == [variant |-> "Activity", item |-> item, outcome |-> how,
                       same |-> FALSE, repeated |-> FALSE, cause |-> "none",
                       age |-> IF filtered \/ recent_activities[item] = -1 THEN -1
                               ELSE now - recent_activities[item],
                       since |-> IF filtered \/ selected_at[item] = -1 THEN -1
                                 ELSE now - selected_at[item]]
    IN /\ UNCHANGED <<user_clients, session_states, default_pair, prev, evicted, propVars,
                      trackVars, pipeVars, spc, cacheVars>>
       /\ IF filtered
          THEN /\ last' = Ended("filtered")
               /\ UNCHANGED <<recent_activities, selected_at, selection, written_by>>
          ELSE IF TooSoon(kept[item])
          THEN /\ last' = Ended("suppressed")
               /\ recent_activities' = kept
               /\ UNCHANGED <<selected_at, selection, written_by>>
          ELSE /\ recent_activities' = [kept EXCEPT ![item] = now]
               /\ IF known
                  THEN /\ last' = Ended("tracks")
                       /\ selected_at' = [selected_at EXCEPT ![item] = now]
                       /\ selection' \in Plans(item)
                       /\ written_by' = Written(selection')
                  ELSE /\ last' = Ended("no_user")
                       /\ UNCHANGED <<selected_at, selection, written_by>>

\* One second passes.
Wait ==
    /\ now < MaxSeconds
    /\ now' = now + 1
    /\ UNCHANGED <<pipeVars, spc, handlerVars, default_streams, ugranted, propagated,
                   library, is_refreshing, episode_parts, newly_added,
                   newly_updated, last_refresh, cache_file, cpc, loc, ret, granted>>

\* _process_alerts, lines 113-120: plex.change_tracks of the handler call
\* that had got as far as track selection raises ReadTimeout. What the call
\* wrote to the cache before stays; the processor counts the retry and
\* sleeps one second.
HandlerTimedOut ==
    /\ last.variant \in {"Playing", "Activity"}
    /\ last.outcome = "tracks"
    /\ retry_counter < MaxRetry
    /\ now < MaxSeconds
    /\ last' = [last EXCEPT !.outcome = "timeout"]
    /\ retry_counter' = retry_counter + 1
    /\ now' = now + 1
    /\ UNCHANGED <<configVars, alerts_queue, stop_event, listenerVars, pc, alert,
                   firstInvoked, outcome, afterStop, spc, trackVars, evicted, propVars,
                   user_clients, session_states, selection, default_pair,
                   recent_activities, written_by, selected_at, prev, library,
                   is_refreshing, episode_parts, newly_added, newly_updated, last_refresh,
                   cache_file, cpc, loc, ret, granted, ugranted, propagated,
                   default_streams>>

\* Lines 110-114 with retry_counter > 0: no alert is taken from the queue,
\* alert.process runs again on the alert held, whose message is the same:
\* the same session key and state, the same user and item.
RetryAlert ==
    /\ last.outcome = "timeout"
    /\ \/ last.variant = "Playing"
          /\ PlayingProcess("s1", prev["s1"].state, last.item, TRUE, FALSE)
       \/ last.variant = "Activity"
          /\ ActivityProcess(last.item, TRUE, TRUE)

\* Line 115: the call returned, retry_counter = 0.
RetryReturn ==
    /\ retry_counter > 0
    /\ last.outcome # "timeout"
    /\ retry_counter' = 0
    /\ UNCHANGED <<configVars, alerts_queue, stop_event, listenerVars, pc, alert,
                   firstInvoked, outcome, afterStop, spc, cacheVars, handlerVars>>

\* PlexStatus.process, one item of the added or updated list, and
\* PlexTimeline.process: the ignore rules, then the should_process_* test of
\* the cache (fresh: it returns True; for a Timeline alert also: the event is
\* one of a library item added in the last 5 minutes), then
\* process_new_or_updated_episode, which selects for the item the pair of the
\* user's reference episode.
ScanProcess(variant, item, fresh) ==
    LET how == IF item = "movie" \/ Ignores(variant, item) \/ ~fresh THEN "filtered"
               ELSE "tracks"
    IN /\ last' = [variant |-> variant, item |-> item, outcome |-> how, same |-> FALSE,
                   repeated |-> FALSE, cause |-> "none", age |-> -1, since |-> -1]
       /\ IF how = "tracks" /\ item \in DOMAIN selection
          THEN \E r \in DOMAIN selection :
                  /\ selection' = [selection EXCEPT ![item] = selection[r]]
                  /\ written_by' = Written(selection')
          ELSE UNCHANGED <<selection, written_by>>
       /\ UNCHANGED <<recent_activities, selected_at, user_clients, session_states,
                      default_pair, prev, evicted, propVars, trackVars, pipeVars, spc,
                      cacheVars>>

\* -------------------------------------- restart: PlexServerCache.__init__
\* PlexAutoLanguages.start: self.plex.save_cache() when the main loop stops.
SaveCache ==
    /\ cache_file' = SavedDocument
    /\ UNCHANGED <<pipeVars, spc, handlerVars, default_streams, ugranted, propagated,
                   library, is_refreshing, episode_parts, newly_added,
                   newly_updated, last_refresh, now, cpc, loc, ret, granted>>

\* _load() succeeds: a document whose episode_parts is not empty.
Loadable(file) ==
    /\ file # NoFile
    /\ file # CorruptFile
    /\ file.episode_parts # EmptyDict

\* The process stops wherever it is and a new one constructs the cache:
\* the fields are initialised (lines 54-71) and _load() runs. A corrupt file
\* is removed. The markers are read before the inventory is tested, so they
\* are kept when the inventory is empty. When _load() returns False the
\* constructor goes on to save() and to the scan; its position is kept in the
\* processor's slot, the processor thread being started after construction.
Restart ==
    /\ is_refreshing' = FALSE
    /\ LET doc == cache_file \notin {NoFile, CorruptFile}
       IN /\ newly_updated' = IF doc THEN [k \in DOMAIN cache_file.newly_updated |->
                                            IsoParse(cache_file.newly_updated[k])]
                                     ELSE EmptyDict
          /\ newly_added' = IF doc THEN [k \in DOMAIN cache_file.newly_added |->
                                          IsoParse(cache_file.newly_added[k])]
                                   ELSE EmptyDict
          /\ episode_parts' = IF doc THEN cache_file.episode_parts ELSE EmptyDict
          /\ last_refresh' = IF Loadable(cache_file) THEN IsoParse(cache_file.last_refresh) ELSE 0
    /\ cache_file' = IF cache_file = CorruptFile THEN NoFile ELSE cache_file
    /\ cpc' = [t \in Threads |-> IF t = "processor" /\ ~Loadable(cache_file)
                                  THEN "c_save" ELSE "idle"]
    /\ loc' = [t \in Threads |-> NoLocals]
    /\ ret' = [t \in Threads |-> NoReturn]
    /\ ugranted' = [e \in Episodes |-> 0]
    /\ default_streams' = 0
    /\ UNCHANGED <<pipeVars, spc, handlerVars, propagated, library, now, granted>>

\* Outside a construction the cache file is deleted, or left truncated by an
\* interrupted write.
FileLost ==
    /\ cpc["processor"] \notin {"c_save", "c_scan"}
    /\ cache_file' \in {NoFile, CorruptFile}
    /\ cache_file' # cache_file
    /\ UNCHANGED <<pipeVars, spc, handlerVars, default_streams, ugranted, propagated,
                   library, is_refreshing, episode_parts, newly_added,
                   newly_updated, last_refresh, now, cpc, loc, ret, granted>>

\* if not self._load(): self.save()
ConstructSave ==
    /\ cpc["processor"] = "c_save"
    /\ cache_file' = SavedDocument
    /\ cpc' = [cpc EXCEPT !["processor"] = "c_scan"]
    /\ UNCHANGED <<pipeVars, spc, handlerVars, default_streams, ugranted, propagated,
                   library, is_refreshing, episode_parts, newly_added,
                   newly_updated, last_refresh, now, loc, ret, granted>>

\* self.refresh_library_cache(): the flag is false, the scan begins.
ConstructScan ==
    /\ cpc["processor"] = "c_scan"
    /\ ~is_refreshing
    /\ cpc' = [cpc EXCEPT !["processor"] = "r_set"]
    /\ UNCHANGED <<pipeVars, spc, handlerVars, default_streams, ugranted, propagated,
                   library, is_refreshing, episode_parts, newly_added,
                   newly_updated, last_refresh, cache_file, now, loc, ret, granted>>

\* ----------------------------------------------------------- specifications
Next ==
    \/ \E m \in Messages : Receive(m)
    \/ Put
    \/ Stop
    \/ LoopCheck
    \/ GetAlert
    \/ GetEmpty
    \/ Retry
    \/ HandlerTrackSelectionBegin
    \/ HandlerTrackSelectionEnd
    \/ HandlerOk
    \/ HandlerTimeout
    \/ HandlerConnectionLost
    \/ HandlerException

Spec == Init /\ [][Next]_vars

\* The processor thread is a live thread: it is scheduled again and again, the
\* get returns or times out, and every handler call returns.
FairSpec ==
    /\ Spec
    /\ WF_vars(LoopCheck)
    /\ WF_vars(GetAlert \/ GetEmpty \/ Retry)
    /\ WF_vars(HandlerReturn)

NextScheduler ==
    \/ DeepAnalysisStart
    \/ DeepChangeTracksBegin
    \/ DeepChangeTracksEnd
    \/ DeepScan
    \/ DeepPropagateBegin
    \/ DeepPropagateEnd
    \/ DeepAnalysisEnd

\* The alert pipeline with the scheduler thread beside it (scheduler.enable).
ConcSpec == Init /\ [][Next \/ NextScheduler]_vars

\* The configuration with every trigger enabled, before any alert.
AllTriggers ==
    /\ trigger_on_play = TRUE
    /\ trigger_on_scan = TRUE
    /\ trigger_on_activity = TRUE
    /\ PipeStart
    /\ spc = "idle"

\* Two threads call refresh_library_cache on one cache: the processor thread
\* (PlexStatus.process with refresh_library_on_scan) and the scheduler thread
\* (start_deep_analysis). The cache was built by a scan of the library or
\* loaded from the file of an earlier run.
RefreshInit ==
    /\ AllTriggers
    /\ \E lib \in Libraries :
          \E snap \in {lib} \cup (Libraries \ {EmptyDict}) : CacheStart(lib, snap)

RefreshNext ==
    \/ Tick
    \/ \E t \in Threads :
          \/ RefreshSkip(t)
          \/ RefreshPass(t)
          \/ RefreshSetFlag(t)
          \/ RefreshFetch(t)
          \/ RefreshLoop(t)
          \/ RefreshAssign(t)
          \/ RefreshStamp(t)
          \/ RefreshSave(t)
          \/ RefreshReturn(t)

RefreshSpec == RefreshInit /\ [][RefreshNext]_vars

\* One thread makes a sequence of should_process_recently_added calls.
DedupNext ==
    \E e \in Episodes, at \in Times :
        \/ AddedCheckHit("processor", e, at)
        \/ AddedCheckMiss("processor", e, at)
        \/ AddedStore("processor")
        \/ Propagate("processor")

DedupInit == AllTriggers /\ CacheStart(EmptyDict, EmptyDict)

DedupSpec == DedupInit /\ [][DedupNext]_vars

\* item.addedAt of the episodes the sources report: fixed per episode.
addedAt == [e \in Episodes |-> 1]

\* The processor thread (PlexTimeline.process, PlexStatus.process) and the
\* scheduler thread (start_deep_analysis) each report added episodes: the
\* should_process_recently_added test, and on True the propagation.
SourcesNext ==
    \E t \in Threads :
        \/ \E e \in Episodes :
              \/ AddedCheckHit(t, e, addedAt[e])
              \/ AddedCheckMiss(t, e, addedAt[e])
        \/ AddedStore(t)
        \/ Propagate(t)

SourcesSpec == DedupInit /\ [][SourcesNext]_vars

\* The cache right after a construction that scanned the library.
UpdatedInit == AllTriggers /\ \E lib \in Libraries : CacheStart(lib, lib)

\* One thread calls refresh_library_cache again and again on a cache whose
\* snapshot was scanned or loaded from the file of an earlier run.
ScanNext ==
    \/ Tick
    \/ RefreshSkip("processor")
    \/ RefreshPass("processor")
    \/ RefreshSetFlag("processor")
    \/ RefreshFetch("processor")
    \/ RefreshLoop("processor")
    \/ RefreshFault("processor")
    \/ RefreshAssign("processor")
    \/ RefreshStamp("processor")
    \/ RefreshSave("processor")
    \/ RefreshReturn("processor")

ScanSpec == RefreshInit /\ [][ScanNext]_vars

\* One process after the other: the processor thread reports added and
\* updated episodes and refreshes, the main loop saves at shutdown, and the
\* process stops at any point and is started again on the same cache file.
RestartNext ==
    \/ Tick
    \/ SaveCache
    \/ Restart
    \/ ConstructSave
    \/ ConstructScan
    \/ RefreshPass("processor")
    \/ RefreshSetFlag("processor")
    \/ RefreshFetch("processor")
    \/ RefreshLoop("processor")
    \/ RefreshAssign("processor")
    \/ RefreshStamp("processor")
    \/ RefreshSave("processor")
    \/ RefreshReturn("processor")
    \/ \E e \in Episodes :
          \/ AddedCheckHit("processor", e, addedAt[e])
          \/ AddedCheckMiss("processor", e, addedAt[e])
          \/ UpdatedCheckHit("processor", e)
          \/ UpdatedCheckMiss("processor", e)
    \/ AddedStore("processor")
    \/ UpdatedStore("processor")
    \/ Propagate("processor")

RestartSpec == UpdatedInit /\ [][RestartNext]_vars

\* Construction after construction: between them the processor thread
\* reports added episodes and refreshes, the main loop saves, and the file may
\* be lost.
ConstructNext ==
    \/ FileLost
    \/ SaveCache
    \/ Restart
    \/ ConstructSave
    \/ ConstructScan
    \/ RefreshPass("processor")
    \/ RefreshSetFlag("processor")
    \/ RefreshFetch("processor")
    \/ RefreshLoop("processor")
    \/ RefreshAssign("processor")
    \/ RefreshStamp("processor")
    \/ RefreshSave("processor")
    \/ RefreshReturn("processor")
    \/ \E e \in Episodes :
          \/ AddedCheckHit("processor", e, addedAt[e])
          \/ AddedCheckMiss("processor", e, addedAt[e])
    \/ AddedStore("processor")
    \/ Propagate("processor")

ConstructSpec == UpdatedInit /\ [][ConstructNext]_vars

\* The processor thread handles Playing alerts one after the other; the idle
\* cleanup may run between them.
StreamsNext ==
    \/ \E title \in LibraryTitles, known \in KeyStates : PlayingStreams(title, known)
    \/ CleanIdleCaches

StreamsSpec == DedupInit /\ [][StreamsNext]_vars

\* One call of process_new_or_updated_episode, for any outcome of the
\* lookups of each user.
PropagateNext ==
    \/ /\ ppc = "idle"
       /\ \E r \in [{UserIds[i] : i \in 1..Len(UserIds)} -> UNION {Resolutions(UserIds[i]) : i \in 1..Len(UserIds)}] :
             /\ \A i \in 1..Len(UserIds) : r[UserIds[i]] \in Resolutions(UserIds[i])
             /\ PropagateBegin(r)
    \/ PropagateUser
    \/ PropagateNotify

PropagateSpec == DedupInit /\ [][PropagateNext]_vars

\* Playing alerts handled one after the other by the processor thread, while
\* the user picks streams.
PlayNext ==
    \/ \E k \in DOMAIN session_states, st \in {"playing", "stopped"}, item \in Items,
          found \in BOOLEAN, old \in BOOLEAN : PlayingProcess(k, st, item, found, old)
    \/ \E item \in DOMAIN selection, pair \in Pairs : UserSelects(item, pair)

PlaySpec == DedupInit /\ [][PlayNext]_vars

\* Alerts of the four variants handled one after the other.
HandlersNext ==
    \/ \E k \in DOMAIN session_states, st \in {"playing", "stopped"}, item \in Items,
          found \in BOOLEAN : PlayingProcess(k, st, item, found, FALSE)
    \/ \E item \in Items, found \in BOOLEAN, known \in BOOLEAN :
          ActivityProcess(item, found, known)
    \/ \E variant \in {"Status", "Timeline"}, item \in Items, fresh \in BOOLEAN :
          ScanProcess(variant, item, fresh)

HandlersSpec == DedupInit /\ [][HandlersNext]_vars

\* Activity alerts of one user handled one after the other while time
\* passes.
ActivityNext ==
    \/ \E item \in Items, found \in BOOLEAN, known \in BOOLEAN :
          ActivityProcess(item, found, known)
    \/ Wait

ActivitySpec == DedupInit /\ [][ActivityNext]_vars

\* The processor thread hands Playing and Activity alerts to their handlers;
\* a call that reaches track selection can time out and is then retried.
RetryNext ==
    \/ /\ retry_counter = 0
       /\ last.outcome # "timeout"
       /\ \/ \E st \in {"playing", "stopped"}, item \in Items, found \in BOOLEAN :
                PlayingProcess("s1", st, item, found, FALSE)
          \/ \E item \in Items, found \in BOOLEAN, known \in BOOLEAN :
                ActivityProcess(item, found, known)
    \/ HandlerTimedOut
    \/ RetryAlert
    \/ RetryReturn

RetrySpec == DedupInit /\ [][RetryNext]_vars

\* One TrackChanges object: built on a reference with any selection, for any
\* targets, then computed and applied, possibly again.
TrackNext ==
    \/ /\ tpc = "idle"
       /\ \E a \in AudioCatalogue \cup {None}, sb \in SubtitleCatalogue \cup {None},
             ps \in UNION {[1..n -> Parts] : n \in 1..MaxParts} : TrackNew(a, sb, ps)
    \/ Compute
    \/ ApplyBegin
    \/ ApplyStep
    \/ ApplyFault
    \/ ApplyEnd

TrackSpec == DedupInit /\ [][TrackNext]_vars

\* change_tracks calls get_episodes_to_update for any reference episode of
\* any show, under each update_level and update_strategy of the configuration.
EpisodesSpec ==
    DedupInit /\ [][\E present \in SUBSET ((1..MaxSeason) \X (1..MaxNumber)),
                       reference \in (1..MaxSeason) \X (1..MaxNumber),
                       update_level \in {"show", "season"},
                       update_strategy \in {"all", "next"} :
                       EpisodesToUpdate(present, reference, update_level, update_strategy)]_vars

\* One thread makes a sequence of should_process_recently_updated calls and
\* of refresh_library_cache calls while time passes.
UpdatedNext ==
    \/ Tick
    \/ RefreshPass("processor")
    \/ RefreshSetFlag("processor")
    \/ RefreshFetch("processor")
    \/ RefreshLoop("processor")
    \/ RefreshAssign("processor")
    \/ RefreshStamp("processor")
    \/ RefreshSave("processor")
    \/ RefreshReturn("processor")
    \/ \E e \in Episodes :
          \/ UpdatedCheckHit("processor", e)
          \/ UpdatedCheckMiss("processor", e)
    \/ UpdatedStore("processor")
    \/ Propagate("processor")

UpdatedSpec == UpdatedInit /\ [][UpdatedNext]_vars

\* ======================================================== alert pipeline
HandlerReturns == InHandler /\ pc' = "loop"

HandlerCalled == pc = "get" /\ pc' = "process"

Faults == {"connection", "exception"}

\* C1: one failing alert never halts the pipeline: as long as the stop flag is
\* never set, every alert put on the queue behind another alert eventually has
\* its handler invoked, whatever the handler calls before it raise.
C1_QueuedAlertEventuallyInvoked ==
    ([]~stop_event) =>
        \A b \in 2..MaxAlerts : (nput >= b) ~> (Len(firstInvoked) >= b)

\* C2: a handler call that raises a read timeout increments the retry counter
\* and keeps the alert; the handler call that follows a timeout is on the same
\* alert and takes nothing from the queue; an alert is taken from the queue only
\* when the retry counter is 0; a handler call that returns resets the counter.
C2_TimeoutRetriesSameAlert ==
    [][ /\ (HandlerReturns /\ outcome' = "timeout") =>
              /\ retry_counter < MaxRetry => retry_counter' = retry_counter + 1
              /\ retry_counter' > 0
              /\ alert' = alert
        /\ (HandlerCalled /\ outcome = "timeout") =>
              /\ alert' = alert
              /\ alerts_queue' = alerts_queue
        /\ (Len(alerts_queue') < Len(alerts_queue)) => retry_counter = 0
        /\ (HandlerReturns /\ outcome' = "ok") => retry_counter' = 0
      ]_vars

\* C2 witness: a second retry of one alert is running while another alert
\* waits in the queue.
C2_Witness ==
    /\ pc = "process"
    /\ outcome = "timeout"
    /\ retry_counter >= 2
    /\ alerts_queue # <<>>

\* C3: retries of one alert are bounded. With a cap on the attempts an alert
\* under retry is answered or dropped after finitely many attempts, and either
\* resets the counter: as long as the stop flag is never set, a nonzero retry
\* counter eventually returns to 0.
C3_RetriesBounded ==
    ([]~stop_event) => ((retry_counter > 0) ~> (retry_counter = 0))

\* C4: a handler call that raises a connection fault or any fault other than a
\* read timeout leaves the retry counter at 0; the handler call that follows is
\* on the alert at the head of the queue, a later alert; and the handler is
\* never again called on an earlier alert, so a dropped alert is not invoked
\* again.
C4_FaultDropsAlert ==
    [][ /\ (HandlerReturns /\ outcome' \in Faults) => retry_counter' = 0
        /\ (HandlerCalled /\ outcome \in Faults) =>
              /\ alerts_queue # <<>>
              /\ alert' = Head(alerts_queue)
              /\ alert'.id > alert.id
        /\ alert'.id >= alert.id
      ]_vars

\* C4 witness: after a fault on one alert the handler of the next alert runs.
C4_Witness ==
    /\ pc = "process"
    /\ outcome \in Faults
    /\ alert.id >= 2
    /\ retry_counter = 0

\* C5 as stated: once the stop flag is set, no handler call begins any more.
C5_NoAlertAfterStop == afterStop = 0

\* C5 amended: the stop flag is read at the top of a loop iteration only.
\* Setting it does not touch the processor; at most one handler call begins
\* after the flag is set (by an iteration that had passed the check); a
\* processor that reads the flag set exits; after it exits nothing is taken
\* from the queue.
C5_StopObservedAtLoopHead ==
    [][ /\ afterStop' <= 1
        /\ (stop_event' /\ ~stop_event) =>
              /\ pc' = pc
              /\ alert' = alert
              /\ retry_counter' = retry_counter
        /\ (stop_event /\ pc = "loop") => pc' \in {"loop", "done"}
        /\ pc' = "done" => stop_event'
        /\ pc = "done" =>
              /\ pc' = "done"
              /\ firstInvoked' = firstInvoked
              /\ Len(alerts_queue') >= Len(alerts_queue)
      ]_vars

\* C5 witness: one handler call began after the flag was set, the processor has
\* exited and an alert is left in the queue.
C5_Witness ==
    /\ afterStop = 1
    /\ pc = "done"
    /\ alerts_queue # <<>>

\* The messages C6 is about.
C6_Droppable(m) ==
    \/ m.type \notin {"playing", "activity", "timeline", "status"}
    \/ m.type = "playing" /\ ~trigger_on_play
    \/ m.type = "activity" /\ ~trigger_on_activity
    \/ m.type \in {"timeline", "status"} /\ ~trigger_on_scan
    \/ m.field # FieldOfType(m.type)

\* C6: a message of an unrecognized type, of a type whose trigger is disabled,
\* or without the array field of its type is dropped: the call returns with the
\* queue as it was, and no put loop ever runs for such a message.
C6_DroppedMessageLeavesQueue ==
    [][ /\ \A m \in Messages :
              (Receive(m) /\ C6_Droppable(m)) =>
                  /\ alerts_queue' = alerts_queue
                  /\ nput' = nput
                  /\ lpc' = "ignored"
        /\ lpc' = "put" => ~C6_Droppable(msg')
      ]_vars

\* C6 witness: with the scan trigger disabled and the play trigger enabled, a
\* call has returned early after alerts of earlier messages were queued.
C6_Witness ==
    /\ lpc = "ignored"
    /\ ~trigger_on_scan
    /\ trigger_on_play
    /\ nput > 0

\* The variant C7 names for each message type.
C7_Variant(type) ==
    CASE type = "playing" -> "Playing"
      [] type = "activity" -> "Activity"
      [] type = "timeline" -> "Timeline"
      [] type = "status" -> "Status"

\* C7: an accepted message with k entries appends exactly k alerts of the
\* mapped variant, entry 1 to entry k in order, at the tail of the queue; and
\* the n-th alert whose handler is invoked for the first time is the n-th alert
\* that was put on the queue.
C7_EntriesQueuedAndServedInOrder ==
    [][ /\ \A m \in Messages :
              (Receive(m) /\ ~C6_Droppable(m)) =>
                  /\ idx' = 1
                  /\ (m.k = 0) <=> (lpc' = "idle")
                  /\ (m.k > 0) <=> (lpc' = "put" /\ msg' = m)
        /\ (nput' # nput) =>
              /\ lpc = "put"
              /\ idx <= msg.k
              /\ alerts_queue' = Append(alerts_queue,
                                        [id |-> nput + 1,
                                         variant |-> C7_Variant(msg.type),
                                         entry |-> idx])
              /\ nput' = nput + 1
              /\ (idx < msg.k) => (lpc' = "put" /\ idx' = idx + 1 /\ msg' = msg)
              /\ (idx = msg.k) => lpc' = "idle"
        /\ (firstInvoked' # firstInvoked) =>
              /\ firstInvoked' = Append(firstInvoked, Len(firstInvoked) + 1)
              /\ alert'.id = Len(firstInvoked) + 1
      ]_vars

\* C7 witness: the handler of the last of MaxAlerts alerts, which came in more
\* than one message, is running after the handlers of all the earlier ones.
C7_Witness ==
    /\ Len(firstInvoked) = MaxAlerts
    /\ pc = "process"
    /\ alert.id = MaxAlerts

\* C8: at most one track-selection computation (TrackChanges compute/apply)
\* executes at any time, also while the deep analysis runs beside the alert
\* processor.
C8_OneTrackSelectionAtATime ==
    ~(ProcessorSelectsTracks /\ SchedulerSelectsTracks)

\* ============================================================ server cache
\* C9: of two overlapping refresh_library_cache calls exactly one performs the
\* scan: at no time are two calls past the in-progress test and scanning.
C9_OneRefreshScans ==
    Cardinality({t \in Threads : cpc[t] \in ScanPositions}) <= 1

\* C10: in any sequence of should_process_recently_added calls, the calls with
\* one (episode id, added_at) return True at most once.
C10_TrueOncePerIdAndTime ==
    \A x \in Episodes \X Times : granted[x] <= 1

\* C11: between two consecutive refresh stamps, at most one call of
\* should_process_recently_updated for a given episode returns True.
C11_TrueOncePerIdAndRefresh ==
    \A e \in Episodes : ugranted[e] <= 1

\* A refresh completed at a later time, E1 was granted once since, and the
\* last call (for E1, the only episode with a marker) was refused.
C11_Witness ==
    /\ last_refresh > 0
    /\ ugranted["E1"] = 1
    /\ "E2" \notin DOMAIN newly_updated
    /\ ret["processor"].kind = "refused"

\* C12: an added episode with a fixed addedAt, reported by the alert handlers
\* and by the deep analysis in any interleaving, is propagated
\* (process_new_or_updated_episode) at most once.
C12_PropagatedAtMostOnce ==
    \A e \in Episodes : propagated[e] <= 1

\* C13: a marker that made should_process_recently_added or
\* should_process_recently_updated return True before the process stopped
\* still refuses the same call after the cache is reconstructed from the file.
C13_MarkersSurviveRestart ==
    [][Restart =>
         /\ \A e \in DOMAIN newly_added :
               e \in DOMAIN newly_added' /\ newly_added'[e] = newly_added[e]
         /\ \A e \in Episodes : AlreadyUpdated(e) => AlreadyUpdated(e)']_vars

\* C14: a refresh_library_cache call that scans returns as added exactly the
\* scanned episodes whose key the stored snapshot lacks, and as updated
\* exactly those whose key it holds with another set of parts; unchanged
\* episodes are in neither list.
C14_DiffAgainstSnapshot ==
    [][\A t \in Threads :
         /\ (cpc[t] = "r_loop" /\ cpc'[t] = "r_stamp") =>
               /\ loc[t].added = SelectSeq(EpisodeList(loc[t].eps),
                                    LAMBDA e : e \notin DOMAIN episode_parts)
               /\ loc[t].updated = SelectSeq(EpisodeList(loc[t].eps),
                                    LAMBDA e : e \in DOMAIN episode_parts
                                               /\ episode_parts[e] # loc[t].eps[e])
         /\ (cpc[t] = "r_clear" /\ cpc'[t] = "idle") =>
               /\ ret'[t].added = loc[t].added
               /\ ret'[t].updated = loc[t].updated]_vars

\* The example of the spec: snapshot {E1:[p1]}, scan E1:[p1] and E2:[p2],
\* returned added = [E2], updated = [].
C14_Witness ==
    /\ ret["processor"] = [kind |-> "scanned", added |-> <<"E2">>, updated |-> <<>>]
    /\ episode_parts = [e \in Episodes |-> IF e = "E1" THEN {"p1"} ELSE {"p2"}]
    /\ library = episode_parts
    /\ cpc["processor"] = "idle"

\* C15: episode_parts is replaced in one step by the complete result of a
\* scan: a reader sees the previous snapshot or the new one, never a part of
\* the new one.
C15_SnapshotReplacedWhole ==
    [][episode_parts' # episode_parts =>
         \E t \in Threads :
            /\ cpc[t] = "r_loop"
            /\ DOMAIN episode_parts' = DOMAIN loc[t].eps
            /\ \A e \in DOMAIN loc[t].eps : episode_parts'[e] = loc[t].eps[e]]_vars

\* A scan of two episodes has just replaced a snapshot that held only E1,
\* with other parts.
C15_Witness ==
    \E t \in Threads :
        /\ cpc[t] = "r_stamp"
        /\ loc[t].added = <<"E2">>
        /\ loc[t].updated = <<"E1">>
        /\ episode_parts = loc[t].eps
        /\ DOMAIN episode_parts = Episodes

\* C16: when the persisted cache is missing, corrupt or holds an empty
\* inventory, construction starts from the empty state (no markers, empty
\* snapshot) and persists that empty state before the scan.
C16_FreshConstructionStartsEmpty ==
    /\ cpc["processor"] = "c_save" =>
          /\ newly_added = EmptyDict
          /\ newly_updated = EmptyDict
          /\ episode_parts = EmptyDict
    /\ cpc["processor"] = "c_scan" =>
          cache_file = CacheDocument(EmptyDict, EmptyDict, EmptyDict, IsoFormat(0))

\* C17: after any Playing alert handler completes, default_streams holds at
\* most 10,000 entries.
C17_DefaultStreamsBounded ==
    default_streams <= MaxDefaultStreams

\* The handler that stored the 10,001st entry evicted a tenth of them.
C17_Witness ==
    /\ evicted
    /\ default_streams = (MaxDefaultStreams + 1) - ((MaxDefaultStreams + 1) \div 10)


C19_NoChangeWithoutLanguage ==
    tpc = "computed" =>
        \A p \in 1..Len(targets) :
            LET NoneShares(ref, streams) ==
                    /\ ref # None
                    /\ \A i \in 1..Len(streams) : streams[i].languageCode # ref.languageCode
                Changed(kind) == \E c \in 1..Len(changes) :
                                    changes[c].part = p /\ changes[c].kind = kind
            IN /\ NoneShares(audio_stream, targets[p].audio) => ~Changed("audio")
               /\ NoneShares(IF subtitle_stream # None THEN subtitle_stream ELSE audio_stream,
                             targets[p].subs) => ~Changed("subtitle")

\* C19 (amended): under the same condition the plan selects no stream of
\* that kind for the part: it holds no audio change, and the only subtitle
\* change it can hold is the clearing of the part's selected subtitle.
C19_NoSelectionWithoutLanguage ==
    tpc = "computed" =>
        \A p \in 1..Len(targets) :
            LET NoneShares(ref, streams) ==
                    /\ ref # None
                    /\ \A i \in 1..Len(streams) : streams[i].languageCode # ref.languageCode
            IN \A c \in 1..Len(changes) :
                  changes[c].part = p =>
                      /\ NoneShares(audio_stream, targets[p].audio)
                            => changes[c].kind # "audio"
                      /\ NoneShares(IF subtitle_stream # None THEN subtitle_stream
                                    ELSE audio_stream, targets[p].subs)
                            => (changes[c].kind = "subtitle"
                                   => changes[c].stream = 0 /\ targets[p].selSub # 0)

\* The reference plays French audio with French subtitles; the part has only
\* English streams, one of each kind selected: the plan is the clearing of
\* the subtitle.
C19_Witness ==
    /\ tpc = "computed" /\ passes = 0
    /\ audio_stream # None /\ subtitle_stream # None
    /\ audio_stream.languageCode = "fr" /\ subtitle_stream.languageCode = "fr"
    /\ Len(targets[1].audio) = 2 /\ Len(targets[1].subs) = 2
    /\ \A i \in 1..2 : /\ targets[1].audio[i].languageCode = "en"
                        /\ targets[1].subs[i].languageCode = "en"
    /\ targets[1].selAudio # 0 /\ targets[1].selSub # 0
    /\ changes = <<[part |-> 1, kind |-> "subtitle", stream |-> 0]>>

\* C20 (as stated): when the reference has no subtitle selected and its audio
\* language is L, every subtitle the plan selects for a target part is a
\* forced subtitle of language L, and a part without a forced subtitle of
\* language L gets no subtitle change.
C20_ForcedOrNoChange ==
    (tpc = "computed" /\ subtitle_stream = None /\ audio_stream # None) =>
        \A p \in 1..Len(targets) :
            LET subs == targets[p].subs
                Forced(i) == subs[i].forced /\ subs[i].languageCode = audio_stream.languageCode
            IN \A c \in 1..Len(changes) :
                  (changes[c].part = p /\ changes[c].kind = "subtitle") =>
                      /\ changes[c].stream # 0
                      /\ Forced(changes[c].stream)

\* C20 (amended): every subtitle the plan selects is a forced subtitle of
\* language L; for a part without one the plan selects no subtitle, and
\* clears the subtitle selection if the part has one.
C20_ForcedOrCleared ==
    (tpc = "computed" /\ subtitle_stream = None /\ audio_stream # None) =>
        \A p \in 1..Len(targets) :
            LET subs == targets[p].subs
                Forced(i) == subs[i].forced /\ subs[i].languageCode = audio_stream.languageCode
                clear == [part |-> p, kind |-> "subtitle", stream |-> 0]
            IN /\ \A c \in 1..Len(changes) :
                     (changes[c].part = p /\ changes[c].kind = "subtitle") =>
                         IF changes[c].stream = 0
                         THEN ~\E i \in 1..Len(subs) : Forced(i)
                         ELSE Forced(changes[c].stream)
               /\ ((~\E i \in 1..Len(subs) : Forced(i)) /\ passes = 0) =>
                     ((targets[p].selSub # 0) <=> (\E c \in 1..Len(changes) : changes[c] = clear))

\* The reference plays English audio without subtitles; the part has a
\* plain and a forced English subtitle, the plain one selected: the plan
\* selects the forced one.
C20_Witness ==
    /\ tpc = "computed" /\ passes = 0
    /\ subtitle_stream = None /\ audio_stream # None
    /\ audio_stream.languageCode = "en"
    /\ Len(targets[1].subs) = 2
    /\ ~targets[1].subs[1].forced /\ targets[1].subs[1].languageCode = "en"
    /\ targets[1].subs[2].forced /\ targets[1].subs[2].languageCode = "en"
    /\ targets[1].selSub = 1
    /\ \E c \in 1..Len(changes) : changes[c] = [part |-> 1, kind |-> "subtitle", stream |-> 2]

\* C21: for the reference audio {aac, 2 channels, stereo, title "English"}
\* and a part whose audio streams are A {aac, 2, "English"} and
\* B {ac3, 6, "English"} (all titles equal, so the set is ambiguous), A scores
\* strictly higher than B and A is the stream matched.
C21_ExactMatchScoresHigher ==
    LET A == [languageCode |-> "en", codec |-> "aac", channels |-> 2,
              audioChannelLayout |-> "stereo", title |-> "English",
              displayTitle |-> "English", visualImpaired |-> FALSE]
        B == [languageCode |-> "en", codec |-> "ac3", channels |-> 6,
              audioChannelLayout |-> "5.1", title |-> "English",
              displayTitle |-> "English", visualImpaired |-> FALSE]
    IN (/\ tpc = "computed" /\ passes = 0
        /\ audio_stream = A
        /\ targets[1].audio \in {<<A, B>>, <<B, A>>}) =>
           LET audios == targets[1].audio
           IN /\ AudioScore(audio_stream, A, Ambiguous(audios))
                    > AudioScore(audio_stream, B, Ambiguous(audios))
              /\ audios[MatchAudio(audio_stream, audios)] = A

\* C28: for a reference with a selected audio stream, the audio match of a
\* part is none exactly when no audio stream of the part shares the
\* reference's language code, and a matched stream shares it: an impairment
\* filter that would leave no candidate is skipped.
C28_AudioMatchIffLanguage ==
    (tpc \in {"new", "computed", "fault"} /\ audio_stream # None) =>
        \A p \in 1..Len(targets) :
            LET audios == targets[p].audio
                m == MatchAudio(audio_stream, audios)
            IN /\ (m = 0) <=> (\A i \in 1..Len(audios) :
                                   audios[i].languageCode # audio_stream.languageCode)
               /\ m # 0 => audios[m].languageCode = audio_stream.languageCode

\* The reference's audio is for the visually impaired; the part has two
\* streams of its language, neither for the visually impaired, and the plan
\* moves the selection from one to the other.
C28_Witness ==
    /\ tpc = "computed" /\ passes = 0
    /\ audio_stream # None /\ audio_stream.visualImpaired
    /\ Len(targets[1].audio) = 2
    /\ \A i \in 1..2 : /\ targets[1].audio[i].languageCode = audio_stream.languageCode
                        /\ ~targets[1].audio[i].visualImpaired
    /\ \E c \in 1..Len(changes) : changes[c].kind = "audio"

\* C29: when more than one audio candidate remains, the score of each is
\* 5 for a codec match + 3 for a channel-layout match + 5 for an exact title
\* match + the ambiguity bonus when all candidate titles are identical (8 if
\* the reference has at most 2 channels and the candidate has more, else 1 if
\* the candidate has at least the reference's channels); the highest score
\* is selected, the first one on a tie.
C29_ScoreFormula ==
    (tpc \in {"new", "computed", "fault"} /\ audio_stream # None) =>
        \A p \in 1..Len(targets) :
            LET audios == targets[p].audio
                streams == AudioCandidates(audio_stream, audios)
                identical == \A k \in 1..Len(streams) :
                                audios[streams[k]].title = audios[streams[1]].title
                Stated(st) ==
                    (IF audio_stream.codec = st.codec THEN 5 ELSE 0)
                    + (IF audio_stream.audioChannelLayout = st.audioChannelLayout THEN 3 ELSE 0)
                    + (IF audio_stream.title # Missing /\ audio_stream.title = st.title
                       THEN 5 ELSE 0)
                    + (IF ~identical THEN 0
                       ELSE IF audio_stream.channels <= 2 /\ st.channels > audio_stream.channels
                       THEN 8
                       ELSE IF st.channels >= audio_stream.channels THEN 1 ELSE 0)
            IN Len(streams) > 1 =>
                  /\ \A k \in 1..Len(streams) :
                        AudioScore(audio_stream, audios[streams[k]], Ambiguous(audios))
                            = Stated(audios[streams[k]])
                  /\ MatchAudio(audio_stream, audios)
                        = streams[FirstMax([k \in 1..Len(streams) |->
                                               Stated(audios[streams[k]])])]

\* C30: when the reference has a selected subtitle, the subtitle matched for
\* a target part, if any, has the reference's language code, forced flag and
\* hearing-impaired flag.
C30_SubtitleMatchFlags ==
    (tpc \in {"computed", "fault"} /\ subtitle_stream # None) =>
        \A p \in 1..Len(targets) :
            LET subs == targets[p].subs
                m == MatchSubtitle(audio_stream, subtitle_stream, subs)
            IN m # 0 =>
                  /\ subs[m].languageCode = subtitle_stream.languageCode
                  /\ subs[m].forced = subtitle_stream.forced
                  /\ subs[m].hearingImpaired = subtitle_stream.hearingImpaired

\* C22: in one propagation, a user whose view, item, reference episode or
\* user record cannot be resolved is skipped alone: when the call has
\* returned, every user whose lookups all succeed has had a plan computed and
\* applied.
C22_UnresolvedUserSkippedAlone ==
    ppc = "done" =>
        \A i \in 1..Len(UserIds) :
            resolves[UserIds[i]] \in {"changes", "no_changes"} => UserIds[i] \in served

\* C23: a propagation that has returned has emitted exactly one
\* notification if the applied plan of some user contained changes, and none
\* otherwise.
C23_OneNotificationIffChanges ==
    ppc = "done" =>
        notified = IF \E u \in served : resolves[u] = "changes" THEN 1 ELSE 0

C24_IgnoredNeverSelected ==
    last.outcome = "tracks" =>
        /\ (IF last.item = "K1" THEN "Kids" ELSE "TV") \notin IgnoreLibraries
        /\ last.item # "L1"

\* C26: a Playing alert selects tracks only for an item without a
\* default_streams entry or whose selected pair differs from its entry, and
\* never for an item whose pair differs from its entry only because applied
\* plans rewrote it.
C26_OwnWritesNeverReselect ==
    (last.variant = "Playing" /\ last.outcome = "tracks") =>
        last.cause \notin {"equal", "system"}

\* C27: an Activity alert selects tracks only when the last Activity alert
\* that selected tracks for the same user and item did so at least 3
\* seconds before; an alert is suppressed only by an entry younger than 10
\* seconds, and once an alert has passed the cleanup no entry of 10 seconds
\* or more is left in recent_activities.
C27_OncePerGap ==
    last.variant = "Activity" =>
        /\ (last.outcome = "tracks" /\ last.since # -1) => last.since >= MinimumGap
        /\ last.outcome = "suppressed" => (last.age # -1 /\ last.age < Retention)
        /\ (last.item \in DOMAIN recent_activities /\ recent_activities[last.item] = now) =>
              \A i \in DOMAIN recent_activities :
                 recent_activities[i] = -1 \/ recent_activities[i] > now - Retention

\* An Activity alert on an item was suppressed less than 3 seconds after
\* one that selected tracks for it, and the entry of another item, written
\* 10 seconds or more before, has been removed.
C27_Witness ==
    /\ last.variant = "Activity"
    /\ last.outcome = "suppressed"
    /\ last.since # -1
    /\ last.since < MinimumGap
    /\ \E i \in DOMAIN recent_activities :
          /\ i # last.item
          /\ selected_at[i] # -1
          /\ selected_at[i] <= now - Retention
          /\ recent_activities[i] = -1

\* C31: in a computed plan an audio change names a stream other than the
\* part's selected audio stream, a subtitle change a stream other than its
\* selected subtitle stream, and a part has a clear-subtitle change exactly
\* when no subtitle stream matches and a subtitle stream is selected.
C31_ChangesDiffer ==
    tpc = "computed" =>
        /\ \A k \in 1..Len(changes) :
              LET change == changes[k]
                  part == targets[change.part]
              IN IF change.kind = "audio"
                 THEN change.stream # 0 /\ change.stream # part.selAudio
                 ELSE change.stream # part.selSub
        /\ \A p \in 1..Len(targets) :
              (\E k \in 1..Len(changes) :
                  changes[k] = [part |-> p, kind |-> "subtitle", stream |-> 0])
              <=> (/\ MatchSubtitle(audio_stream, subtitle_stream, targets[p].subs) = 0
                   /\ targets[p].selSub # 0)

\* A computed plan with an audio change and a clear-subtitle change.
C31_Witness ==
    /\ tpc = "computed"
    /\ \E j, k \in 1..Len(changes) :
          /\ changes[j].kind = "audio"
          /\ changes[k].kind = "subtitle"
          /\ changes[k].stream = 0

\* C32: when the reference's audio stream is a descriptive or commentary
\* track and no audio stream of a part matches it, the computed plan holds
\* no subtitle change for that part.
C32_NoSubtitleChangeWithoutVariant ==
    (/\ tpc = "computed"
     /\ audio_stream # None
     /\ audio_stream.title \in DescriptiveTitles) =>
        \A p \in 1..Len(targets) :
           MatchAudio(audio_stream, targets[p].audio) = 0 =>
              \A k \in 1..Len(changes) :
                 ~(changes[k].part = p /\ changes[k].kind = "subtitle")

\* C33: with update_strategy "next" the list returned holds exactly the
\* episodes of the scope (the show, or the reference's season) that come
\* strictly after the reference in (season, episode) order; with "all" it
\* holds every episode of the scope.
C33_TargetSet ==
    LET InScope(e) == update.level = "show" \/ e[1] = update.reference[1]
        After(e) == \/ e[1] > update.reference[1]
                    \/ e[1] = update.reference[1] /\ e[2] > update.reference[2]
        Returned == {update.episodes[k] : k \in 1..Len(update.episodes)}
        Shown == {update.show[k] : k \in 1..Len(update.show)}
    IN /\ update.strategy = "next" => Returned = {e \in Shown : InScope(e) /\ After(e)}
       /\ update.strategy = "all" => Returned = {e \in Shown : InScope(e)}
       /\ Len(update.episodes) = Cardinality(Returned)

\* A "next" call at season level on the first episode of a show that has
\* every episode returned only the later episode of the reference's season.
C33_Witness ==
    /\ update.strategy = "next"
    /\ update.level = "season"
    /\ update.reference = <<1, 1>>
    /\ Len(update.show) = MaxSeason * MaxNumber
    /\ update.episodes = <<<<1, 2>>>>

\* C34: when the media server rejects a write of the first apply of a plan,
\* the changes recorded before it have been written, in recorded order, the
\* rejected change and those after it have not, and apply has ended with the
\* fault.
C34_ApplyNotAtomic ==
    (tpc = "rejected" /\ passes = 0) =>
        /\ applied < Len(changes)
        /\ \A k \in 1..Len(changes) :
              LET part == targets[changes[k].part]
                  selected == IF changes[k].kind = "audio" THEN part.selAudio ELSE part.selSub
              IN IF k <= applied THEN selected = changes[k].stream
                 ELSE selected # changes[k].stream

\* The second write of a plan of two changes was rejected.
C34_Witness ==
    tpc = "rejected" /\ passes = 0 /\ applied = 1 /\ Len(changes) = 2

\* C35: the refresh-in-progress flag is set only while the thread's
\* refresh_library_cache call is executing: once the call has ended, by a
\* return or by a fault of the episode enumeration, the flag is false.
C35_FlagOnlyWhileRefreshing ==
    is_refreshing => cpc["processor"] # "idle"

\* C36: the handler call the processor makes again after a ReadTimeout raised
\* during track selection reaches track selection again (and returns or
\* times out again); the cache state the failed call wrote does not make it
\* return before.
C36_RetryReachesTrackSelection ==
    retry_counter > 0 => last.outcome \in {"timeout", "tracks"}

\* C37: a computed plan holds no change for the reference's own part, that
\* is for a target part whose selected audio and subtitle streams are the
\* ones the object took from the reference.
C37_ReferenceUnchanged ==
    tpc = "computed" =>
        \A p \in 1..Len(targets) :
           LET part == targets[p]
               own == /\ IF part.selAudio = 0 THEN audio_stream = None
                         ELSE audio_stream = part.audio[part.selAudio]
                      /\ IF part.selSub = 0 THEN subtitle_stream = None
                         ELSE subtitle_stream = part.subs[part.selSub]
           IN own => \A k \in 1..Len(changes) : changes[k].part # p

\* C38: compute ends without an exception for every target part, also for
\* a part with no audio stream selected on which a subtitle stream matches
\* the reference.
C38_ComputeNeverFaults ==
    tpc # "fault"

\* C39: once stop() has set the stop flag, the processor thread ends (and
\* the join of stop() returns), also when the alert it holds keeps timing
\* out, as long as every handler call returns.
C39_StopTerminates ==
    stop_event ~> (pc = "done")

\* The processor has ended with the flag set while an alert was under retry.
C39_Witness ==
    /\ stop_event
    /\ pc = "done"
    /\ retry_counter > 0
    /\ outcome = "timeout"

====
